---- MODULE Spec2Model ----
(***************************************************************************)
(* Identity normalization and the concurrent nickname registry of the IRC  *)
(* server: Casefold / CasefoldName (strings.go), the two rename flows      *)
(* performNickChange of nickname.go (the single-session flow with          *)
(* forceNick and the multi-session flow with history), RandomlyRename,     *)
(* fixupNickEqualsAccount and the client accessors of getters.go.          *)
(*                                                                         *)
(* Names are sequences of one-character strings.  A server runs exactly    *)
(* one of the two flows; the flow is fixed in the initial state.           *)
(***************************************************************************)
EXTENDS Integers, Sequences, FiniteSets, TLC

(***************************************************************************)
(* Bounds of the model.                                                    *)
(***************************************************************************)
MaxOps == 2          \* rename operations invoked in one behaviour
MaxTasks == 2        \* rename operations in flight at the same time
MaxSessions == 2     \* sessions attached to one client
MaxLen == 2          \* length of the strings given to the normalizer
MaxClasses == 3      \* operator classes a configuration may define

(***************************************************************************)
(* The scenario: who is connected, who may do what, what may be asked.     *)
(***************************************************************************)
Clients == {"c1", "c2", "c3"}
Operators == {"c3"}
Bouncers == {"c1"}
ChannelNames == {"#x", "#y"}
MayJoin == [c \in Clients |-> IF c = "c3" THEN {"#y"} ELSE {"#x"}]
\* the account name a client may log in with, none for the others
LoginName == [c \in Clients |-> IF c = "c2" THEN <<"A">> ELSE <<>>]
RegisteredAccounts == {<<"a">>}
\* the NICK and SANICK commands that may arrive: <<acting client, target, name>>
CommandsMulti ==
    {<<"c1", "c1", <<"A">>>>, <<"c1", "c1", <<"b">>>>, <<"c1", "c1", <<>>>>,
     <<"c2", "c2", <<"a">>>>, <<"c2", "c2", <<"#">>>>, <<"c2", "c2", <<"H">>>>,
     <<"c3", "c1", <<"b">>>>}
CommandsSingle ==
    {<<"c1", "c1", <<"a">>>>, <<"c1", "c1", <<"b">>>>,
     <<"c2", "c2", <<"a">>>>, <<"c2", "c2", <<"o", "p", "e", "r">>>>, <<"c2", "c2", <<" ">>>>,
     <<"c2", "c2", <<"=">>>>,
     <<"c3", "c3", <<"a">>>>, <<"c3", "c1", <<"b">>>>}
\* the clients whose sessions may detach
MayDetach == {"c2"}
\* the clients the nick timer may rename
TimedOut == {"c1", "c2"}
HexTokens == {"0", "1"}
\* the nick of a client that is already registered in the initial state
Home == [c \in Clients |-> IF c = "c1" THEN <<"a">>
                           ELSE IF c = "c2" THEN <<"a", "-", "0">>
                           ELSE <<"o", "p", "e", "r">>]

\* the goroutines of the lock-level model
Threads == {"t1", "t2", "t3"}

NoNick == <<"*">>
NoSession == <<"none", 0>>
NoLine == <<>>

VARIABLES
    mapping,                 \* the behaviour of the case mapping under the normalizer
    flow,                    \* "single" or "multi": the rename flow the server runs
    forceNickEqualsAccount,  \* Accounts.NickReservation.ForceNickEqualsAccount
    byNick,                  \* the Registry: canonical key -> client
    nick,                    \* client.nick
    nickCasefolded,          \* client.nickCasefolded
    registered,              \* client.registered
    account,                 \* client.account (casefolded account)
    accountName,             \* client.accountName
    preregNick,              \* client.preregNick
    sessions,                \* the live sessions of a client
    channels,                \* client.channels
    tasks,                   \* the call stack of every rename operation in flight
    last,                    \* the call of performNickChange that returned in the last step
    ops,                     \* rename operations invoked so far
    input,                   \* the string given to a function of the normalizer
    call,                    \* the last call of a normalizer function and its result
    prev,                    \* the call before it
    prog,                    \* thread -> the lock and send operations it has to do
    at,                      \* thread -> the operation it does next
    held,                    \* thread -> the locks it holds
    conf,                    \* conf.OperClasses: class name -> its OperClassConfig
    ocs,                     \* OperatorClasses: the classes assembled so far
    lenOfLastOcs,            \* OperatorClasses: len(ocs) at the start of the pass before
    anyMissing,              \* OperatorClasses: a class of this pass had to wait
    unvisited,                   \* OperatorClasses: the classes the range has yet to visit
    at_oc,                   \* OperatorClasses: where the call stands
    result                   \* OperatorClasses: what the call returned

vars == <<mapping, input, call, prev, flow, forceNickEqualsAccount, byNick, nick, nickCasefolded, registered,
          account, accountName, preregNick, sessions, channels, tasks, last, ops,
          prog, at, held, conf, ocs, lenOfLastOcs, anyMissing, unvisited, at_oc, result>>

cfgVars == <<mapping, flow, forceNickEqualsAccount, preregNick>>
foldVars == <<input, call, prev>>
lockVars == <<prog, at, held>>
operVars == <<conf, ocs, lenOfLastOcs, anyMissing, unvisited, at_oc, result>>
envVars == <<registered, sessions, channels>>
nickVars == <<byNick, nick, nickCasefolded>>
acctVars == <<account, accountName>>

(***************************************************************************)
(* Normalizer (strings.go).                                                *)
(***************************************************************************)
StabilizeLimit == 4

\* the behaviours of the case mapping the normalizer may be built on: "lower"
\* maps in one pass, "settle" needs several passes to reach a fixed point
\* (z -> y -> x), "rotate" never reaches one (x -> y -> z -> x)
Mappings == {"lower", "settle", "rotate"}

\* the mapping of one character
MapChar(ch) ==
    CASE ch = "A" -> "a"
      [] ch = "B" -> "b"
      [] ch = "H" -> "h"
      [] mapping = "settle" /\ ch = "z" -> "y"
      [] mapping = "settle" /\ ch = "y" -> "x"
      [] mapping = "rotate" /\ ch = "x" -> "y"
      [] mapping = "rotate" /\ ch = "y" -> "z"
      [] mapping = "rotate" /\ ch = "z" -> "x"
      [] OTHER -> ch

\* precis.UsernameCaseMapped.CompareKey: case mapping of every character;
\* characters outside the identifier class (space) are rejected.
RECURSIVE MapChars(_)
MapChars(str) ==
    IF str = <<>> THEN <<>> ELSE <<MapChar(Head(str))>> \o MapChars(Tail(str))

CompareKey(str) ==
    IF \E i \in 1..Len(str) : str[i] = " "
    THEN [ok |-> FALSE, val |-> <<>>, err |-> "precis"]
    ELSE [ok |-> TRUE, val |-> MapChars(str), err |-> "nil"]

RECURSIVE CasefoldLoop(_, _, _)
RECURSIVE CasefoldPass(_, _, _)
\* the loop of Casefold: i passes done, oldStr and str as in the source
CasefoldLoop(i, oldStr, str) ==
    IF i >= StabilizeLimit
    THEN IF oldStr # str
         THEN [ok |-> FALSE, val |-> <<>>, err |-> "errCouldNotStabilize"]
         ELSE [ok |-> TRUE, val |-> str, err |-> "nil"]
    ELSE CasefoldPass(i, oldStr, CompareKey(str))

\* one pass of the loop, r the result of CompareKey
CasefoldPass(i, oldStr, r) ==
    IF ~r.ok THEN [ok |-> FALSE, val |-> <<>>, err |-> r.err]
    ELSE IF oldStr = r.val THEN [ok |-> TRUE, val |-> r.val, err |-> "nil"]
    ELSE CasefoldLoop(i + 1, r.val, r.val)

Casefold(str) == CasefoldLoop(0, str, str)

ContainsAny(str, chars) == \E i \in 1..Len(str) : str[i] \in chars

\* the checks as they would be with '.' left out of the forbidden characters
CasefoldNameChecksDot(l) ==
    IF ~l.ok THEN [ok |-> FALSE, val |-> <<>>, err |-> l.err]
    ELSE IF Len(l.val) = 0 THEN [ok |-> FALSE, val |-> <<>>, err |-> "errStringIsEmpty"]
    ELSE IF \/ ContainsAny(l.val, {" ", ",", "*", "?", "!", "@", ":"})
            \/ l.val[1] \in {"#", "~", "&", "@", "%", "+", "-"}
         THEN [ok |-> FALSE, val |-> <<>>, err |-> "errInvalidCharacter"]
    ELSE [ok |-> TRUE, val |-> l.val, err |-> "nil"]

\* the checks as they would be without the test of the first character
CasefoldNameChecksNoLead(l) ==
    IF ~l.ok THEN [ok |-> FALSE, val |-> <<>>, err |-> l.err]
    ELSE IF Len(l.val) = 0 THEN [ok |-> FALSE, val |-> <<>>, err |-> "errStringIsEmpty"]
    ELSE IF ContainsAny(l.val, {" ", ",", "*", "?", ".", "!", "@", ":"})
         THEN [ok |-> FALSE, val |-> <<>>, err |-> "errInvalidCharacter"]
    ELSE [ok |-> TRUE, val |-> l.val, err |-> "nil"]

\* the checks of CasefoldName on l, the result of Casefold
CasefoldNameChecks(l) ==
    IF ~l.ok THEN [ok |-> FALSE, val |-> <<>>, err |-> l.err]
    ELSE IF Len(l.val) = 0 THEN [ok |-> FALSE, val |-> <<>>, err |-> "errStringIsEmpty"]
    ELSE IF \/ ContainsAny(l.val, {" ", ",", "*", "?", ".", "!", "@", ":"})
            \/ l.val[1] \in {"#", "~", "&", "@", "%", "+", "-"}
         THEN [ok |-> FALSE, val |-> <<>>, err |-> "errInvalidCharacter"]
    ELSE [ok |-> TRUE, val |-> l.val, err |-> "nil"]

CasefoldName(name) == CasefoldNameChecks(Casefold(name))

RECURSIVE SigilRun(_)
\* the loop of CasefoldChannel: the number of '#' the name starts with
SigilRun(name) ==
    IF name # <<>> /\ Head(name) = "#" THEN 1 + SigilRun(Tail(name)) ELSE 0

\* the checks of CasefoldChannel on lowered, the result of Casefold on the
\* name after its first start characters
CasefoldChannelChecks(name, start, lowered) ==
    IF ~lowered.ok THEN [ok |-> FALSE, val |-> <<>>, err |-> lowered.err]
    ELSE IF ContainsAny(lowered.val, {" ", ",", "*", "?"})
         THEN [ok |-> FALSE, val |-> <<>>, err |-> "errInvalidCharacter"]
    ELSE [ok |-> TRUE, val |-> SubSeq(name, 1, start) \o lowered.val, err |-> "nil"]

\* CasefoldChannel as it would be without the test start == 0
CasefoldChannelFromAny(name, start) ==
    CasefoldChannelChecks(name, start, Casefold(SubSeq(name, start + 1, Len(name))))

\* CasefoldChannel with start, the length of the run of '#'
CasefoldChannelFrom(name, start) ==
    IF start = 0 THEN [ok |-> FALSE, val |-> <<>>, err |-> "errInvalidCharacter"]
    ELSE CasefoldChannelChecks(name, start, Casefold(SubSeq(name, start + 1, Len(name))))

CasefoldChannel(name) ==
    IF Len(name) = 0 THEN [ok |-> FALSE, val |-> <<>>, err |-> "errStringIsEmpty"]
    ELSE CasefoldChannelFrom(name, SigilRun(name))

RECURSIVE TrimLeft(_)
TrimLeft(str) == IF str # <<>> /\ Head(str) = " " THEN TrimLeft(Tail(str)) ELSE str

RECURSIVE TrimRight(_)
TrimRight(str) ==
    IF str # <<>> /\ str[Len(str)] = " " THEN TrimRight(SubSeq(str, 1, Len(str) - 1)) ELSE str

\* strings.TrimSpace
TrimSpace(str) == TrimRight(TrimLeft(str))

(***************************************************************************)
(* Configuration (config.go) and the restricted names (nickname.go).      *)
(***************************************************************************)
NickLen == 5

\* single-session flow: "=scene=" and "--" ; names are abbreviated to the
\* model's alphabet, "=scene=" is <<"=">>
restrictedNicknamesSingle == {<<"=">>, <<"-", "-">>}
\* multi-session flow: "=scene=" and "HistServ" (<<"H">>)
restrictedNicknames == {<<"=">>, <<"H">>}
restrictedCasefoldedNicks == {CasefoldName(n).val : n \in restrictedNicknames}


(***************************************************************************)
(* Accessors (getters.go).                                                 *)
(***************************************************************************)
Nick(c) == nick[c]
NickCasefolded(c) == nickCasefolded[c]
Registered(c) == registered[c]
Account(c) == account[c]
AccountName(c) == IF accountName[c] = <<>> THEN <<"*">> ELSE accountName[c]
ClientChannels(c) == channels[c]
\* nick!user@host: user and host never change here and identify the client
NickMaskString(c) == <<nick[c], c>>
WhoWas(c) == [nicknameCasefolded |-> nickCasefolded[c], nickname |-> nick[c], user |-> c]
HasNick(c) == nick[c] # NoNick /\ nick[c] # <<>>
Sessions(c) == sessions[c]

\* Client.SetAccountName: a name CasefoldName rejects changes nothing
SetAccountNameChecked(c, acct, cf) ==
    IF ~cf.ok
    THEN [changed |-> FALSE, account |-> account, accountName |-> accountName]
    ELSE [changed |-> account[c] # cf.val,
          account |-> [account EXCEPT ![c] = cf.val],
          accountName |-> [accountName EXCEPT ![c] = acct]]

SetAccountName(c, acct) ==
    SetAccountNameChecked(c, acct,
        IF acct # <<>> THEN CasefoldName(acct) ELSE [ok |-> TRUE, val |-> <<>>, err |-> "nil"])

\* accounts.Logout
Logout(c) == [account |-> [account EXCEPT ![c] = <<>>],
              accountName |-> [accountName EXCEPT ![c] = <<>>]]

Members(ch) == {c \in Clients : ch \in channels[c]}

\* Client.Friends: the sessions of the client itself and of every member of
\* every channel it is in
Friends(c) ==
    sessions[c] \cup UNION {sessions[m] : m \in UNION {Members(ch) : ch \in channels[c]}}

(***************************************************************************)
(* The Registry transaction ClientManager.SetNick.                         *)
(***************************************************************************)
Restricted == IF flow = "single" THEN restrictedNicknamesSingle ELSE restrictedCasefoldedNicks

\* the result of a call that changes nothing
Refused(e, name, key) ==
    [err |-> e, assigned |-> <<>>, cf |-> <<>>, name |-> name, key |-> key,
     byNick |-> byNick, nick |-> nick, nickCasefolded |-> nickCasefolded]

\* the map after the commit, as a buggy Registry would leave it: the old entry
\* of the target stays
RegistryAfterKeepingOld(target, cf) ==
    [k \in DOMAIN byNick \cup {cf} |-> IF k = cf THEN target ELSE byNick[k]]

\* the map after the commit: the old entry of the target removed, the new inserted
RegistryAfter(target, cf) ==
    LET keep == {k \in DOMAIN byNick : byNick[k] # target}
    IN  [k \in keep \cup {cf} |-> IF k = cf THEN target ELSE byNick[k]]

\* the result of a call that commits
Accepted(target, name, cf) ==
    [err |-> "nil", assigned |-> name, cf |-> cf, name |-> name, key |-> cf,
     byNick |-> RegistryAfter(target, cf),
     nick |-> [nick EXCEPT ![target] = name],
     nickCasefolded |-> [nickCasefolded EXCEPT ![target] = cf]]

\* the name SetNick works on: the account name for an empty request under the
\* nick-equals-account policy
RequestedName(target, newNick) ==
    IF newNick = <<>> /\ forceNickEqualsAccount THEN accountName[target] ELSE newNick

\* the checks of SetNick on the name and cf, its canonical form, in order
SetNickChecks(target, name, cf) ==
    IF name = <<>> THEN Refused("errNickMissing", name, <<>>)
    ELSE IF ~cf.ok THEN Refused("errNicknameInvalid", name, <<>>)
    ELSE IF cf.val \in Restricted THEN Refused("errNicknameInvalid", name, cf.val)
    ELSE IF cf.val \in DOMAIN byNick /\ byNick[cf.val] # target
         THEN Refused("errNicknameInUse", name, cf.val)
    ELSE IF cf.val \in DOMAIN byNick /\ byNick[cf.val] = target
         THEN Refused("errNoop", name, cf.val)
    ELSE IF /\ forceNickEqualsAccount
            /\ cf.val \in RegisteredAccounts
            /\ account[target] # cf.val
         THEN Refused("errNickAccountMismatch", name, cf.val)
    ELSE Accepted(target, name, cf.val)

\* SetNick as a buggy Registry would do it: no check that the key is taken
SetNickUnchecked(target, newNick) ==
    LET name == IF newNick = <<>> /\ forceNickEqualsAccount THEN accountName[target] ELSE newNick
        cf   == CasefoldName(name)
        key  == IF cf.ok THEN cf.val ELSE <<>>
    IN  IF name = <<>> THEN Refused("errNickMissing", name, key)
        ELSE IF ~cf.ok THEN Refused("errNicknameInvalid", name, key)
        ELSE IF cf.val \in Restricted THEN Refused("errNicknameInvalid", name, key)
        ELSE IF cf.val \in DOMAIN byNick /\ byNick[cf.val] = target
             THEN Refused("errNoop", name, key)
        ELSE IF /\ forceNickEqualsAccount
                /\ cf.val \in RegisteredAccounts
                /\ account[target] # cf.val
             THEN Refused("errNickAccountMismatch", name, key)
        ELSE Accepted(target, name, cf.val)

\* SetNick as a buggy Registry would do it: the old entry of the target is
\* removed before the new key is checked
SetNickRemovingFirst(target, newNick) ==
    LET name == IF newNick = <<>> /\ forceNickEqualsAccount THEN accountName[target] ELSE newNick
        cf   == CasefoldName(name)
        key  == IF cf.ok THEN cf.val ELSE <<>>
        keep == {k \in DOMAIN byNick : byNick[k] # target}
    IN  IF name = <<>> THEN Refused("errNickMissing", name, key)
        ELSE IF ~cf.ok THEN Refused("errNicknameInvalid", name, key)
        ELSE IF cf.val \in Restricted THEN Refused("errNicknameInvalid", name, key)
        ELSE IF cf.val \in DOMAIN byNick /\ byNick[cf.val] # target
             THEN [Refused("errNicknameInUse", name, key) EXCEPT
                      !.byNick = [k \in keep |-> byNick[k]]]
        ELSE IF cf.val \in DOMAIN byNick /\ byNick[cf.val] = target
             THEN Refused("errNoop", name, key)
        ELSE IF /\ forceNickEqualsAccount
                /\ cf.val \in RegisteredAccounts
                /\ account[target] # cf.val
             THEN Refused("errNickAccountMismatch", name, key)
        ELSE Accepted(target, name, cf.val)

\* SetNick(target, requested name): validation and commit in one transaction
SetNick(target, newNick) ==
    SetNickChecks(target, RequestedName(target, newNick),
                  CasefoldName(RequestedName(target, newNick)))

(***************************************************************************)
(* A frame is one call of performNickChange: its arguments, its locals,    *)
(* its ResponseBuffer and what it sent, appended and logged.               *)
(***************************************************************************)
Frame(kind, client, target, session, nickname) ==
    [kind |-> kind, pc |-> "begin", client |-> client, target |-> target,
     session |-> session, nickname |-> nickname,
     raw |-> nickname,        \* the requested name as it was given
     currentNick |-> <<>>, dNick |-> <<>>, origNickMask |-> <<>>, dAccount |-> <<>>,
     whowas |-> <<>>, hadNick |-> FALSE,
     called |-> FALSE, err |-> "nil", assignedNickname |-> <<>>, cfnick |-> <<>>,
     ret |-> "none",
     replies |-> <<>>,        \* rb.Add: the error replies of this call
     nickRb |-> FALSE,        \* rb.AddFromClient(... "NICK" ...)
     nickSent |-> {},         \* the sessions sent the NICK line directly
     nickLine |-> NoLine,     \* <<origin, new name>> of the NICK line
     snos |-> <<>>,           \* snomasks.Send
     whoWasAdded |-> <<>>,    \* whoWas.Append
     histChannels |-> {},     \* the channels given the history item
     histItem |-> <<>>,
     alerts |-> 0,            \* monitorManager.AlertAbout
     logs |-> 0,              \* logger.Debug
     friends |-> {},          \* the Friends() snapshot of the fan-out
     nsNotice |-> FALSE,      \* the notice of fixupNickEqualsAccount
     loggedOut |-> FALSE,
     \* what the call met, recorded for the properties
     reqName |-> <<>>,        \* the name SetNick worked on
     reqKey |-> <<>>,         \* the canonical key SetNick was asked for
     vacated |-> <<>>,        \* the nick the target held when SetNick was called
     sawHolder |-> "none",    \* the client registered under that key at the call
     rivals |-> {},           \* targets of the calls then waiting to ask for the same key
     sameName |-> FALSE,      \* the target held exactly the requested name
     orig |-> <<>>,           \* forceNick: the name it was given
     forcedTo |-> <<>>]       \* forceNick: the derived name the client was given

Reply(code, to, param) == [code |-> code, to |-> to, param |-> param]

NoFrame == Frame("none", "c1", "c1", NoSession, <<>>)

Top(st) == st[Len(st)]

\* a session reads its next command only after the previous one returned
SessionBusy(s) == \E st \in tasks : st[1].kind \in {"nick", "fixup"} /\ st[1].session = s

\* the frame on top of the stack is replaced
SetTop(st, f) == [st EXCEPT ![Len(st)] = f]

\* the call on top of the stack returns: forceNick sends its buffer and the
\* calling performNickChange goes on after its call of forceNick
Return(st, f) ==
    LET n == Len(st)
    IN  IF n = 1 THEN {}
        ELSE {[SubSeq(st, 1, n - 1) EXCEPT
                  ![n - 1].pc = "fanout",
                  ![n - 1].forcedTo = IF st[n - 1].kind = "force" THEN f.forcedTo ELSE @]}

(***************************************************************************)
(* performNickChange, multi-session flow (nickname.go 135-197).            *)
(***************************************************************************)
\* lines 136-139: the snapshot taken before the Registry is asked
Capture(f) ==
    [f EXCEPT !.pc = "setnick",
              !.currentNick = Nick(f.client),
              !.dNick = Nick(f.target),
              !.origNickMask = NickMaskString(f.target),
              !.dAccount = AccountName(f.target),
              !.whowas = WhoWas(f.target),
              !.hadNick = Nick(f.target) # NoNick]

\* the replies as they would be without the branch for errNickMissing
ErrorReplyNoMissing(err, currentNick, nickname) ==
    IF err \in {"nil", "errNoop"} THEN <<>>
    ELSE IF err = "errNicknameInUse" THEN <<Reply("ERR_NICKNAMEINUSE", currentNick, nickname)>>
    ELSE IF err = "errNicknameReserved" THEN <<Reply("ERR_NICKNAMEINUSE", currentNick, nickname)>>
    ELSE IF err = "errNicknameInvalid" THEN <<Reply("ERR_ERRONEUSNICKNAME", currentNick, nickname)>>
    ELSE <<Reply("ERR_UNKNOWNERROR", currentNick, <<>>)>>

\* lines 142-161: the reply for an error of SetNick, none for nil and errNoop
ErrorReply(err, currentNick, nickname) ==
    IF err \in {"nil", "errNoop"} THEN <<>>
    ELSE IF err = "errNicknameInUse" THEN <<Reply("ERR_NICKNAMEINUSE", currentNick, nickname)>>
    ELSE IF err = "errNicknameReserved" THEN <<Reply("ERR_NICKNAMEINUSE", currentNick, nickname)>>
    ELSE IF err = "errNicknameInvalid" THEN <<Reply("ERR_ERRONEUSNICKNAME", currentNick, nickname)>>
    ELSE IF err = "errNickAccountMismatch" THEN <<Reply("ERR_UNKNOWNERROR", currentNick, <<>>)>>
    ELSE IF err = "errNickMissing" THEN <<Reply("ERR_NONICKNAMEGIVEN", currentNick, <<>>)>>
    ELSE <<Reply("ERR_UNKNOWNERROR", currentNick, <<>>)>>

\* the branch as it would be without the errNoop case
AfterSetNickNoNoop(err) ==
    IF err # "nil" /\ err # "errNoop" THEN "false" ELSE "fanout"

\* lines 142-161: what the call does after SetNick returned err
AfterSetNick(err) ==
    IF err = "errNoop" THEN "true" ELSE IF err # "nil" THEN "false" ELSE "fanout"

\* the recipients as they would be without the test session != rb.session
NickRecipientsAll(friends, rbSession) == friends

\* lines 181-185: the sessions sent the NICK line directly
NickRecipients(friends, rbSession) == friends \ {rbSession}

\* lines 188-190: the channels given the history item
HistoryChannels(client, target) == ClientChannels(client)

\* the fan-out as it would be without the test of hadNick
FanoutMultiAlways(f) ==
    [f EXCEPT !.pc = "done", !.ret = "true", !.logs = @ + 1,
              !.histItem = [type |-> "Nick", nick |-> f.origNickMask,
                            accountName |-> f.dAccount, params |-> <<f.assignedNickname>>],
              !.histChannels = HistoryChannels(f.client, f.target),
              !.alerts = IF Registered(f.target) THEN @ + 1 ELSE @,
              !.snos = Append(@, [text |-> "changed", by |-> <<>>, old |-> f.dNick,
                                  new |-> f.assignedNickname]),
              !.whoWasAdded = Append(@, f.whowas),
              !.nickRb = TRUE,
              !.nickLine = <<f.origNickMask, f.assignedNickname>>,
              !.friends = Friends(f.target),
              !.nickSent = NickRecipients(Friends(f.target), f.session)]

\* lines 163-196 on a frame whose SetNick succeeded
FanoutMulti(f) ==
    LET fr == Friends(f.target)
        item == [type |-> "Nick", nick |-> f.origNickMask, accountName |-> f.dAccount,
                 params |-> <<f.assignedNickname>>]
        sno == IF f.client = f.target
               THEN [text |-> "changed", by |-> <<>>, old |-> f.dNick, new |-> f.assignedNickname]
               ELSE [text |-> "operator", by |-> Nick(f.client), old |-> f.dNick,
                     new |-> f.assignedNickname]
        g == [f EXCEPT !.pc = "done", !.ret = "true", !.logs = @ + 1,
                       !.histItem = item,
                       !.histChannels = HistoryChannels(f.client, f.target),
                       !.alerts = IF Registered(f.target) THEN @ + 1 ELSE @]
    IN  IF f.hadNick
        THEN [g EXCEPT !.snos = Append(@, sno),
                       !.whoWasAdded = Append(@, f.whowas),
                       !.nickRb = TRUE,
                       !.nickLine = <<f.origNickMask, f.assignedNickname>>,
                       !.friends = fr,
                       !.nickSent = NickRecipients(fr, f.session)]
        ELSE g

(***************************************************************************)
(* performNickChange and forceNick, single-session flow (nickname.go       *)
(* 25-105).                                                                *)
(***************************************************************************)
\* lines 26-45: the checks before the Registry is asked, and the snapshot
\* the checks as they would be without the test of the restricted names
BeginChecksNoList(g, cf) ==
    IF Len(g.nickname) < 1
    THEN [g EXCEPT !.pc = "done", !.ret = "false",
                   !.replies = Append(@, Reply("ERR_NONICKNAMEGIVEN", Nick(g.client), <<>>))]
    ELSE IF ~cf.ok \/ Len(g.nickname) > NickLen
    THEN [g EXCEPT !.pc = "done", !.ret = "false",
                   !.replies = Append(@, Reply("ERR_ERRONEUSNICKNAME", Nick(g.client),
                                               g.nickname))]
    ELSE IF Nick(g.target) = g.nickname
    THEN [g EXCEPT !.pc = "done", !.ret = "true",
                   !.forcedTo = IF g.kind = "force" THEN g.nickname ELSE @]
    ELSE [g EXCEPT !.pc = "setnick",
                   !.hadNick = HasNick(g.target),
                   !.dNick = Nick(g.target),
                   !.origNickMask = NickMaskString(g.target),
                   !.whowas = WhoWas(g.client)]

\* the checks as they would be without the test of the length
BeginChecksNoLen(g, cf) ==
    IF Len(g.nickname) < 1
    THEN [g EXCEPT !.pc = "done", !.ret = "false",
                   !.replies = Append(@, Reply("ERR_NONICKNAMEGIVEN", Nick(g.client), <<>>))]
    ELSE IF ~cf.ok \/ g.cfnick \in restrictedNicknamesSingle
    THEN [g EXCEPT !.pc = "done", !.ret = "false",
                   !.replies = Append(@, Reply("ERR_ERRONEUSNICKNAME", Nick(g.client),
                                               g.nickname))]
    ELSE IF Nick(g.target) = g.nickname
    THEN [g EXCEPT !.pc = "done", !.ret = "true",
                   !.forcedTo = IF g.kind = "force" THEN g.nickname ELSE @]
    ELSE [g EXCEPT !.pc = "setnick",
                   !.hadNick = HasNick(g.target),
                   !.dNick = Nick(g.target),
                   !.origNickMask = NickMaskString(g.target),
                   !.whowas = WhoWas(g.client)]

\* lines 29-45 on g, the frame with the trimmed name and cf, its canonical form
BeginChecks(g, cf) ==
    IF Len(g.nickname) < 1
    THEN [g EXCEPT !.pc = "done", !.ret = "false",
                   !.replies = Append(@, Reply("ERR_NONICKNAMEGIVEN", Nick(g.client), <<>>))]
    ELSE IF ~cf.ok \/ Len(g.nickname) > NickLen \/ g.cfnick \in restrictedNicknamesSingle
    THEN [g EXCEPT !.pc = "done", !.ret = "false",
                   !.replies = Append(@, Reply("ERR_ERRONEUSNICKNAME", Nick(g.client),
                                               g.nickname))]
    ELSE IF Nick(g.target) = g.nickname
    THEN [g EXCEPT !.pc = "done", !.ret = "true",
                   !.forcedTo = IF g.kind = "force" THEN g.nickname ELSE @]
    ELSE [g EXCEPT !.pc = "setnick",
                   !.hadNick = HasNick(g.target),
                   !.dNick = Nick(g.target),
                   !.origNickMask = NickMaskString(g.target),
                   !.whowas = WhoWas(g.client)]

\* lines 26-28: the name trimmed and casefolded
BeginTrimmed(f, nickname, cf) ==
    BeginChecks([f EXCEPT !.nickname = nickname,
                          !.cfnick = IF cf.ok THEN cf.val ELSE <<>>,
                          !.currentNick = Nick(f.client),
                          !.sameName = HasNick(f.target) /\ Nick(f.target) = nickname],
                cf)

BeginSingle(f) == BeginTrimmed(f, TrimSpace(f.nickname), CasefoldName(TrimSpace(f.nickname)))

\* lines 47-58: what the call does after SetNick returned err
AfterSetNickSingle(err) ==
    IF err \in {"errNicknameInUse", "errNicknameReserved"} THEN "force"
    ELSE IF err # "nil" THEN "false" ELSE "fanout"

\* lines 47-58: the reply for an error of SetNick
ErrorReplySingle(err, clientNick, nickname) ==
    IF err = "nil" THEN <<>>
    ELSE IF err \in {"errNicknameInUse", "errNicknameReserved"}
         THEN <<Reply("ERR_NICKNAMEINUSE", clientNick, nickname)>>
    ELSE <<Reply("ERR_UNKNOWNERROR", clientNick, <<>>)>>

\* the name as it would be with the test of lines 94-96 inverted
ForcedNickPrereg(currentNick, client, token) ==
    LET base == IF currentNick = <<>> \/ currentNick = NoNick THEN currentNick
                ELSE preregNick[client]
    IN  base \o <<"-", token>>

\* lines 94-99: the name forceNick asks for
ForcedNick(currentNick, client, token) ==
    LET base == IF currentNick = <<>> \/ currentNick = NoNick THEN preregNick[client]
                ELSE currentNick
    IN  base \o <<"-", token>>

\* lines 60-75, reached after a successful SetNick and after forceNick returned
FanoutSingle(f) ==
    LET fr == Friends(f.target)
        g == [f EXCEPT !.pc = "done", !.ret = "true", !.logs = @ + 1,
                       !.alerts = IF Registered(f.target) THEN @ + 1 ELSE @]
    IN  IF f.hadNick
        THEN [g EXCEPT !.snos = Append(@, [text |-> "changed", by |-> <<>>,
                                           old |-> f.whowas.nickname, new |-> f.nickname]),
                       !.whoWasAdded = Append(@, f.whowas),
                       !.nickLine = <<f.origNickMask, f.nickname>>,
                       !.friends = fr,
                       !.nickSent = fr]
        ELSE g

(***************************************************************************)
(* RandomlyRename and fixupNickEqualsAccount.                              *)
(***************************************************************************)
GuestFormat == <<"g", "*">>
RenamePrefix == <<"g", "-">>

RECURSIVE ReplaceStar(_, _)
\* strings.Replace(format, "*", token, -1)
ReplaceStar(format, token) ==
    IF format = <<>> THEN <<>>
    ELSE (IF Head(format) = "*" THEN <<token>> ELSE <<Head(format)>>)
         \o ReplaceStar(Tail(format), token)

\* the epilogue as it would be without the call of Logout
FixupEpilogueNotice(f) ==
    IF f.kind = "fixup" /\ f.ret = "false"
    THEN [f EXCEPT !.nsNotice = TRUE]
    ELSE f

\* lines 229-233: a failed enforcement rename logs the client out and tells it
FixupEpilogue(f) ==
    IF f.kind = "fixup" /\ f.ret = "false"
    THEN [f EXCEPT !.nsNotice = TRUE, !.loggedOut = TRUE]
    ELSE f

\* a call of a function of the normalizer: the function, its argument, its result
Call(fn, arg, res) == [fn |-> fn, arg |-> arg, res |-> res]
NoCall == Call("none", <<>>, [ok |-> FALSE, val |-> <<>>, err |-> "nil"])

(***************************************************************************)
(* Initial states: every client has either just connected or is registered *)
(* under its home nick, in its channels or in none, a bouncer client with  *)
(* one or more sessions; no rename is in flight.                           *)
(***************************************************************************)
\* no call of OperatorClasses is under way
NoResult == [ocs |-> <<>>, err |-> "none"]
OperIdle ==
    /\ conf = <<>> /\ ocs = <<>>
    /\ lenOfLastOcs = -1 /\ anyMissing = FALSE
    /\ unvisited = {} /\ at_oc = "idle" /\ result = NoResult

Init ==
    /\ mapping = "lower"
    /\ input = <<>> /\ call = NoCall /\ prev = NoCall
    /\ flow \in {"single", "multi"}
    /\ forceNickEqualsAccount \in BOOLEAN
    /\ flow = "single" => forceNickEqualsAccount = FALSE
    /\ \E est \in SUBSET Clients :
          /\ Operators \subseteq est
          /\ byNick = [k \in {CasefoldName(Home[c]).val : c \in est} |->
                          CHOOSE c \in est : CasefoldName(Home[c]).val = k]
          /\ nick = [c \in Clients |-> IF c \in est THEN Home[c] ELSE NoNick]
          /\ nickCasefolded = [c \in Clients |->
                                  IF c \in est THEN CasefoldName(Home[c]).val ELSE NoNick]
          /\ registered = [c \in Clients |-> c \in est]
          /\ \E joined \in BOOLEAN :
                channels = [c \in Clients |-> IF joined /\ c \in est THEN MayJoin[c] ELSE {}]
          /\ \E n \in 1..MaxSessions :
                sessions = [c \in Clients |->
                              IF flow = "multi" /\ c \in est \cap Bouncers
                              THEN {<<c, i>> : i \in 1..n} ELSE {<<c, 1>>}]
    /\ account = [c \in Clients |-> <<>>]
    /\ accountName = [c \in Clients |-> <<>>]
    /\ preregNick = [c \in Clients |-> <<>>]
    /\ tasks = {}
    /\ last = NoFrame
    /\ ops = 0
    /\ prog = [t \in Threads |-> <<>>]
    /\ at = [t \in Threads |-> 1]
    /\ held = [t \in Threads |-> {}]
    /\ OperIdle

(***************************************************************************)
(* The environment: the end of the registration of a client.               *)
(***************************************************************************)
Register(c) ==
    /\ ~registered[c]
    /\ HasNick(c)
    /\ registered' = [registered EXCEPT ![c] = TRUE]
    /\ UNCHANGED <<cfgVars, foldVars, lockVars, operVars, nickVars, acctVars, sessions, channels, tasks, ops>>
    /\ last' = NoFrame

(***************************************************************************)
(* The rename operations.                                                  *)
(***************************************************************************)
\* the frame f on top of the stack of t has returned
Finish(st, f) ==
    \E g \in {FixupEpilogue(f)} :
    \E lo \in {Logout(f.client)} :
        /\ tasks' = (tasks \ {st}) \cup Return(st, g)
        /\ last' = g
        /\ IF g.loggedOut
           THEN account' = lo.account /\ accountName' = lo.accountName
           ELSE UNCHANGED acctVars

\* the step as it would be if a call that is done never returned
StepNoReturn(st, f) ==
    /\ tasks' = (tasks \ {st}) \cup {SetTop(st, f)}
    /\ last' = NoFrame
    /\ UNCHANGED acctVars

\* the frame on top of the stack of t takes a step to f
Step(st, f) ==
    IF f.pc = "done" THEN Finish(st, f)
    ELSE /\ tasks' = (tasks \ {st}) \cup {SetTop(st, f)}
         /\ last' = NoFrame
         /\ UNCHANGED acctVars

\* a new operation starts with frame f, which has taken its first step
Start(f) ==
    /\ ops < MaxOps
    /\ Cardinality(tasks) < MaxTasks
    /\ <<f>> \notin tasks
    /\ ops' = ops + 1
    /\ IF f.pc = "done"
       THEN tasks' = tasks /\ last' = f
       ELSE tasks' = tasks \cup {<<f>>} /\ last' = NoFrame

FirstStep(f) == IF flow = "single" THEN BeginSingle(f) ELSE Capture(f)

\* NICK from a session of the client, or SANICK from an operator, who names
\* the target by the nick it holds
StartNick(client, target, s, raw) ==
    /\ client = target \/ (client \in Operators /\ registered[client] /\ HasNick(target))
    /\ s \in sessions[client]
    /\ ~SessionBusy(s)
    /\ Start(FirstStep(Frame("nick", client, target, s, raw)))
    /\ UNCHANGED <<cfgVars, foldVars, lockVars, operVars, nickVars, acctVars, envVars>>

\* RandomlyRename as it would be with a buffer that belongs to no session
StartRandomlyRenameNoBuffer(client, s, token) ==
    /\ s \in Sessions(client)
    /\ Start(FirstStep(Frame("random", client, client, NoSession,
                              IF flow = "single" THEN RenamePrefix \o <<token>>
                              ELSE ReplaceStar(GuestFormat, token))))
    /\ UNCHANGED <<cfgVars, foldVars, lockVars, operVars, nickVars, acctVars, envVars>>

\* the nick timer renames a client
StartRandomlyRename(client, s, token) ==
    /\ s \in Sessions(client)
    /\ Start(FirstStep(Frame("random", client, client, s,
                              IF flow = "single" THEN RenamePrefix \o <<token>>
                              ELSE ReplaceStar(GuestFormat, token))))
    /\ UNCHANGED <<cfgVars, foldVars, lockVars, operVars, nickVars, acctVars, envVars>>

\* lines 205-208: the nick timer fires for a client that has no session left,
\* and RandomlyRename returns before it calls performNickChange
RandomlyRenameNoSession(client, token) ==
    /\ flow = "multi"
    /\ Sessions(client) = {}
    /\ ops < MaxOps
    /\ ops' = ops + 1
    /\ last' = [Frame("random", client, client, NoSession, ReplaceStar(GuestFormat, token))
                   EXCEPT !.pc = "skipped"]
    /\ UNCHANGED <<cfgVars, foldVars, lockVars, operVars, nickVars, acctVars, envVars, tasks>>

\* the environment: a session of a client detaches, before or during a rename
Detach(c, s) ==
    /\ flow = "multi"
    /\ c \in MayDetach
    /\ s \in sessions[c]
    /\ sessions' = [sessions EXCEPT ![c] = @ \ {s}]
    /\ last' = NoFrame
    /\ UNCHANGED <<cfgVars, foldVars, lockVars, operVars, nickVars, acctVars, registered, channels,
                   tasks, ops>>

\* a login for which fixupNickEqualsAccount returns at once
LoginPlain(c) ==
    /\ flow = "multi"
    /\ LoginName[c] # <<>>
    /\ account[c] = <<>>
    /\ ~forceNickEqualsAccount \/ ~registered[c]
    /\ \E r \in {SetAccountName(c, LoginName[c])} :
          account' = r.account /\ accountName' = r.accountName
    /\ UNCHANGED <<cfgVars, foldVars, lockVars, operVars, nickVars, envVars, tasks, ops>>
    /\ last' = NoFrame

\* a login after which fixupNickEqualsAccount renames the client
LoginFixup(c, s) ==
    /\ flow = "multi"
    /\ LoginName[c] # <<>>
    /\ account[c] = <<>>
    /\ forceNickEqualsAccount /\ registered[c]
    /\ s \in sessions[c]
    /\ ~SessionBusy(s)
    /\ \E r \in {SetAccountName(c, LoginName[c])} :
          account' = r.account /\ accountName' = r.accountName
    /\ Start([Capture(Frame("fixup", c, c, s, <<>>)) EXCEPT !.dAccount = LoginName[c]])
    /\ UNCHANGED <<cfgVars, foldVars, lockVars, operVars, nickVars, envVars>>

\* the frame with what its call of SetNick met
Met(f, r, st) ==
    [f EXCEPT !.reqName = r.name,
              !.reqKey = r.key,
              !.vacated = Nick(f.target),
              !.sawHolder = IF r.key \in DOMAIN byNick THEN byNick[r.key] ELSE "none",
              !.rivals = {Top(o).target : o \in {u \in tasks \ {st} :
                             /\ Top(u).pc = "setnick"
                             /\ SetNick(Top(u).target, Top(u).nickname).key = r.key}}]

\* the Registry and the clients as the call of SetNick leaves them
Commit(r) ==
    /\ byNick' = r.byNick
    /\ nick' = r.nick
    /\ nickCasefolded' = r.nickCasefolded

\* multi-session flow, lines 141-161: SetNick and the branch on its result
DoSetNickMulti(st) ==
    /\ flow = "multi"
    /\ st \in tasks
    /\ Top(st).pc = "setnick"
    /\ \E f \in {Top(st)} :
       \E r \in {SetNick(f.target, f.nickname)} :
       \E next \in {AfterSetNick(r.err)} :
          /\ Commit(r)
          /\ Step(st, [Met(f, r, st) EXCEPT
                          !.called = TRUE, !.err = r.err,
                          !.assignedNickname = r.assigned, !.cfnick = r.cf,
                          !.sameName = HasNick(f.target) /\ r.name = Nick(f.target),
                          !.replies = @ \o ErrorReply(r.err, f.currentNick, f.nickname),
                          !.pc = IF next = "fanout" THEN "fanout" ELSE "done",
                          !.ret = IF next = "fanout" THEN "none" ELSE next])
    /\ UNCHANGED <<cfgVars, foldVars, lockVars, operVars, envVars, ops>>

\* lines 93-101: the performNickChange forceNick calls, before its first step
ForceFrame(f, token) ==
    [Frame("force", f.client, f.client, <<f.client, 1>>,
           ForcedNick(f.nickname, f.client, token)) EXCEPT !.orig = f.nickname]

\* single-session flow, lines 46-58: SetNick, the branch on its result and the
\* call of forceNick
DoSetNickSingle(st, token) ==
    /\ flow = "single"
    /\ st \in tasks
    /\ Top(st).pc = "setnick"
    /\ \E f \in {Top(st)} :
       \E r \in {SetNick(f.target, f.nickname)} :
       \E next \in {AfterSetNickSingle(r.err)} :
       \E g \in {[Met(f, r, st) EXCEPT
                    !.called = TRUE, !.err = r.err,
                    !.assignedNickname = r.assigned,
                    !.forcedTo = IF f.kind = "force" /\ r.err = "nil" THEN f.nickname ELSE @,
                    !.replies = @ \o ErrorReplySingle(r.err, Nick(f.client), f.nickname),
                    !.pc = IF next = "false" THEN "done"
                           ELSE IF next = "force" THEN "wait" ELSE "fanout",
                    !.ret = IF next = "false" THEN "false" ELSE "none"]} :
          /\ Commit(r)
          /\ IF next = "force"
             THEN /\ tasks' = (tasks \ {st}) \cup
                                 {Append(SetTop(st, g), ForceFrame(f, token))}
                  /\ last' = NoFrame
                  /\ UNCHANGED acctVars
             ELSE Step(st, g)
    /\ UNCHANGED <<cfgVars, foldVars, lockVars, operVars, envVars, ops>>

\* single-session flow: the performNickChange called by forceNick starts
BeginForced(st) ==
    /\ flow = "single"
    /\ st \in tasks
    /\ Top(st).pc = "begin"
    /\ Step(st, BeginSingle(Top(st)))
    /\ UNCHANGED <<cfgVars, foldVars, lockVars, operVars, nickVars, envVars, ops>>

\* multi-session flow, lines 163-196
FanoutStepMulti(st) ==
    /\ flow = "multi"
    /\ st \in tasks
    /\ Top(st).pc = "fanout"
    /\ Step(st, FanoutMulti(Top(st)))
    /\ UNCHANGED <<cfgVars, foldVars, lockVars, operVars, nickVars, envVars, ops>>

\* single-session flow, lines 60-75
FanoutStepSingle(st) ==
    /\ flow = "single"
    /\ st \in tasks
    /\ Top(st).pc = "fanout"
    /\ Step(st, FanoutSingle(Top(st)))
    /\ UNCHANGED <<cfgVars, foldVars, lockVars, operVars, nickVars, envVars, ops>>

Commands == IF flow = "single" THEN CommandsSingle ELSE CommandsMulti
AllSessions == UNION {sessions[c] : c \in Clients}

Next ==
    \/ \E c \in Clients : Register(c)
    \/ \E cmd \in Commands, s \in AllSessions : StartNick(cmd[1], cmd[2], s, cmd[3])
    \/ \E c \in TimedOut, s \in AllSessions, token \in HexTokens :
          StartRandomlyRename(c, s, token)
    \/ \E c \in TimedOut, token \in HexTokens : RandomlyRenameNoSession(c, token)
    \/ \E c \in Clients, s \in AllSessions : Detach(c, s)
    \/ \E c \in Clients : LoginPlain(c)
    \/ \E c \in Clients, s \in AllSessions : LoginFixup(c, s)
    \/ \E st \in tasks : DoSetNickMulti(st)
    \/ \E st \in tasks, token \in HexTokens : DoSetNickSingle(st, token)
    \/ \E st \in tasks : BeginForced(st)
    \/ \E st \in tasks : FanoutStepMulti(st)
    \/ \E st \in tasks : FanoutStepSingle(st)

Spec == Init /\ [][Next]_vars

\* the operations a client may have in flight, by the kind of their first call
Kinds == {"nick", "random", "fixup"}
InFlight(c, k) == {st \in tasks : st[1].client = c /\ st[1].kind = k}

\* the goroutine of some operation in flight takes its next step
Run ==
    \E st \in tasks :
        \/ DoSetNickMulti(st)
        \/ \E token \in HexTokens : DoSetNickSingle(st, token)
        \/ BeginForced(st)
        \/ FanoutStepMulti(st)
        \/ FanoutStepSingle(st)

\* a step of an operation in flight: the stacks change and nothing is invoked
Progress == tasks' # tasks /\ ops' = ops

\* The scheduler does not leave every goroutine that can run waiting forever:
\* weak fairness of Run.  Run can be taken exactly when an operation is in
\* flight and the steps of Run are the steps of Progress, so the condition is
\* written with these two.
SpecLive == Spec /\ ([]<>(tasks = {}) \/ []<><<Progress>>_vars)

(***************************************************************************)
(* The normalizer on its own: one function of strings.go is applied to a   *)
(* string over the alphabet, under one of the mappings; Casefold is then   *)
(* applied once more to its own result.  No client is connected.           *)
(***************************************************************************)
Alphabet == {"A", "a", "x", "y", "z", "#", "~", "&", "@", "%", "+", "-",
             " ", ",", "*", "?", ".", "!", ":"}
Inputs == UNION {[1..k -> Alphabet] : k \in 0..MaxLen}

serverVars == <<cfgVars, envVars, nickVars, acctVars, tasks, last, ops>>

InitFold ==
    /\ mapping \in Mappings
    /\ input \in Inputs
    /\ call = NoCall /\ prev = NoCall
    /\ flow = "multi" /\ forceNickEqualsAccount = FALSE
    /\ byNick = <<>>
    /\ nick = [c \in Clients |-> NoNick]
    /\ nickCasefolded = [c \in Clients |-> NoNick]
    /\ registered = [c \in Clients |-> FALSE]
    /\ channels = [c \in Clients |-> {}]
    /\ sessions = [c \in Clients |-> {<<c, 1>>}]
    /\ account = [c \in Clients |-> <<>>]
    /\ accountName = [c \in Clients |-> <<>>]
    /\ preregNick = [c \in Clients |-> <<>>]
    /\ tasks = {} /\ last = NoFrame /\ ops = 0
    /\ prog = [t \in Threads |-> <<>>]
    /\ at = [t \in Threads |-> 1]
    /\ held = [t \in Threads |-> {}]
    /\ OperIdle

ApplyCasefold ==
    /\ call.fn = "none"
    /\ call' = Call("Casefold", input, Casefold(input))
    /\ prev' = call
    /\ UNCHANGED <<input, serverVars, lockVars, operVars>>

ApplyCasefoldChannel ==
    /\ call.fn = "none"
    /\ call' = Call("CasefoldChannel", input, CasefoldChannel(input))
    /\ prev' = call
    /\ UNCHANGED <<input, serverVars, lockVars, operVars>>

ApplyCasefoldName ==
    /\ call.fn = "none"
    /\ call' = Call("CasefoldName", input, CasefoldName(input))
    /\ prev' = call
    /\ UNCHANGED <<input, serverVars, lockVars, operVars>>

\* Casefold is applied to the string it returned
Refold ==
    /\ call.fn = "Casefold" /\ prev.fn = "none" /\ call.res.ok
    /\ call' = Call("Casefold", call.res.val, Casefold(call.res.val))
    /\ prev' = call
    /\ UNCHANGED <<input, serverVars, lockVars, operVars>>

NextFold ==
    \/ ApplyCasefold
    \/ ApplyCasefoldChannel
    \/ ApplyCasefoldName
    \/ Refold

SpecFold == InitFold /\ [][NextFold]_vars

(***************************************************************************)
(* The locks.  Every thread runs the sequence of lock, unlock and send     *)
(* operations of one call: a rename of the multi-session flow, a write     *)
(* accessor or a history append.  A lock is a read-write mutex.            *)
(***************************************************************************)
Op(op, arg) == [op |-> op, arg |-> arg]

RegistryLock == <<"registry", "clients">>
ClientLock(c) == <<"client", c>>
ChannelLock(ch) == <<"channel", ch>>
LoggerLock == <<"logger", "config">>
\* the place of a lock in the order Registry, client, channel
Rank(l) == IF l[1] = "registry" THEN 1 ELSE IF l[1] = "client" THEN 2
           ELSE IF l[1] = "channel" THEN 3 ELSE 4

RECURSIVE SeqOf(_)
\* the elements of a set in the order a range loop meets them
SeqOf(S) == IF S = {} THEN <<>>
            ELSE LET x == CHOOSE y \in S : TRUE IN <<x>> \o SeqOf(S \ {x})

RECURSIVE Flat(_)
Flat(ss) == IF ss = <<>> THEN <<>> ELSE Head(ss) \o Flat(Tail(ss))

\* a read accessor of Client: RLock, defer RUnlock, return the field
ReadClient(c) == <<Op("RLock", ClientLock(c)), Op("RUnlock", ClientLock(c))>>

\* Client.Nick as it would be without its deferred RUnlock
NickOpsHeld(c) == <<Op("RLock", ClientLock(c))>>

\* Client.Nick
NickOps(c) == <<Op("RLock", ClientLock(c)), Op("RUnlock", ClientLock(c))>>

\* Client.Channels as it would be without its deferred RUnlock
ChannelsOpsHeld(c) == <<Op("RLock", ClientLock(c))>>

\* Client.Channels: the channels are copied under the lock
ChannelsOps(c) == <<Op("RLock", ClientLock(c)), Op("RUnlock", ClientLock(c))>>

\* Channel.Members
MembersOps(ch) == <<Op("RLock", ChannelLock(ch)), Op("RUnlock", ChannelLock(ch))>>

\* Client.SetAccountName: the name is casefolded before the lock is taken
SetAccountNameOps(c) == <<Op("Lock", ClientLock(c)), Op("Unlock", ClientLock(c))>>

\* Manager.Log: the loggers are written under the read lock of the configuration
DebugOps == <<Op("RLock", LoggerLock), Op("RUnlock", LoggerLock)>>

\* ClientManager.SetNick: the whole transaction under the lock of the Registry,
\* the fields of the client written under the lock of the client
SetNickOps(target) ==
    <<Op("Lock", RegistryLock), Op("Lock", ClientLock(target)),
      Op("Unlock", ClientLock(target)), Op("Unlock", RegistryLock)>>

\* Channel.AddHistoryItem
AddHistoryItemOps(ch) == <<Op("Lock", ChannelLock(ch)), Op("Unlock", ChannelLock(ch))>>

\* Client.Friends: the channels of the client, their members and the sessions
\* of each, every set copied by an accessor of its own
FriendsOps(c) ==
    ChannelsOps(c)
    \o Flat([i \in 1..Cardinality(channels[c]) |->
                MembersOps(SeqOf(channels[c])[i])
                \o Flat([k \in 1..Cardinality(Members(SeqOf(channels[c])[i])) |->
                            ReadClient(SeqOf(Members(SeqOf(channels[c])[i]))[k])])])

\* the NICK lines of lines 181-185, one send for each session
SendOps(ss) == [i \in 1..Cardinality(ss) |-> Op("send", SeqOf(ss)[i])]

\* lines 173-186: the notifications for a target that had a nick
NotifyOps(j) ==
    (IF j.client = j.target THEN <<>> ELSE NickOps(j.client))
    \o <<Op("send", "snomask")>>
    \o FriendsOps(j.target)
    \o SendOps(NickRecipients(Friends(j.target), j.session))

\* lines 188-190: the history item is appended to every channel of the client
HistoryOps(c) ==
    ChannelsOps(c)
    \o Flat([i \in 1..Cardinality(channels[c]) |-> AddHistoryItemOps(SeqOf(channels[c])[i])])

\* performNickChange, lines 136-196, for a call whose SetNick returns j.err
PerformOps(j) ==
    NickOps(j.client) \o ReadClient(j.target) \o SetNickOps(j.target)
    \o (IF j.err # "nil" THEN <<>>
        ELSE DebugOps \o ReadClient(j.client)
             \o (IF j.hadNick THEN NotifyOps(j) ELSE <<>>)
             \o HistoryOps(j.client)
             \o ReadClient(j.target))

\* the caller sends the buffer after performNickChange returned (line 212)
RenameOps(j) ==
    PerformOps(j)
    \o (IF j.err = "errNoop" THEN <<>> ELSE <<Op("send", j.session)>>)

Job(client, target, err, hadNick) ==
    [client |-> client, target |-> target, session |-> <<client, 1>>,
     err |-> err, hadNick |-> hadNick]

\* the renames that may run side by side
RenameJobs ==
    {Job(cmd[1], cmd[2], err, hadNick) :
        cmd \in {<<"c1", "c1">>, <<"c2", "c2">>, <<"c3", "c1">>},
        err \in {"nil", "errNoop", "errNicknameInUse"},
        hadNick \in BOOLEAN}

\* the other calls that take the same locks
OtherOps ==
    {SetAccountNameOps(c) : c \in {"c1", "c2"}}
        \cup {AddHistoryItemOps(ch) : ch \in ChannelNames}

InitLock ==
    /\ mapping = "lower"
    /\ input = <<>> /\ call = NoCall /\ prev = NoCall
    /\ flow = "multi" /\ forceNickEqualsAccount = FALSE
    /\ byNick = [k \in {CasefoldName(Home[c]).val : c \in Clients} |->
                    CHOOSE c \in Clients : CasefoldName(Home[c]).val = k]
    /\ nick = Home
    /\ nickCasefolded = [c \in Clients |-> CasefoldName(Home[c]).val]
    /\ registered = [c \in Clients |-> TRUE]
    /\ channels = [c \in Clients |-> IF c = "c3" THEN {} ELSE MayJoin[c]]
    /\ sessions = [c \in Clients |->
                      IF c \in Bouncers THEN {<<c, i>> : i \in 1..MaxSessions} ELSE {<<c, 1>>}]
    /\ account = [c \in Clients |-> <<>>]
    /\ accountName = [c \in Clients |-> <<>>]
    /\ preregNick = [c \in Clients |-> <<>>]
    /\ tasks = {} /\ last = NoFrame /\ ops = 0
    /\ \E j1 \in RenameJobs, j2 \in RenameJobs, o \in OtherOps :
          prog = [t \in Threads |-> IF t = "t1" THEN RenameOps(j1)
                                    ELSE IF t = "t2" THEN RenameOps(j2) ELSE o]
    /\ at = [t \in Threads |-> 1]
    /\ held = [t \in Threads |-> {}]
    /\ OperIdle

Done(t) == at[t] > Len(prog[t])
Cur(t) == prog[t][at[t]]
Holders(l, modes) == {u \in Threads : \E m \in modes : <<l, m>> \in held[u]}

\* a write lock waits for every holder, a read lock for the writer
Free(t, o) ==
    IF o.op = "Lock" THEN Holders(o.arg, {"R", "W"}) = {}
    ELSE Holders(o.arg, {"W"}) = {}

\* the thread can take its next step
CanStep(t) ==
    /\ ~Done(t)
    /\ Cur(t).op \in {"Lock", "RLock"} => Free(t, Cur(t))

Acquire(t) ==
    /\ ~Done(t)
    /\ Cur(t).op \in {"Lock", "RLock"}
    /\ Free(t, Cur(t))
    /\ held' = [held EXCEPT ![t] = @ \cup {<<Cur(t).arg, IF Cur(t).op = "Lock" THEN "W" ELSE "R">>}]
    /\ at' = [at EXCEPT ![t] = @ + 1]
    /\ UNCHANGED <<operVars, prog, foldVars, serverVars>>

Release(t) ==
    /\ ~Done(t)
    /\ Cur(t).op \in {"Unlock", "RUnlock"}
    /\ held' = [held EXCEPT ![t] = @ \ {<<Cur(t).arg, IF Cur(t).op = "Unlock" THEN "W" ELSE "R">>}]
    /\ at' = [at EXCEPT ![t] = @ + 1]
    /\ UNCHANGED <<operVars, prog, foldVars, serverVars>>

\* the send has gone out, however long the session took to accept it
Send(t) ==
    /\ ~Done(t)
    /\ Cur(t).op = "send"
    /\ at' = [at EXCEPT ![t] = @ + 1]
    /\ UNCHANGED <<operVars, prog, held, foldVars, serverVars>>

NextLock ==
    \/ \E t \in Threads : Acquire(t)
    \/ \E t \in Threads : Release(t)
    \/ \E t \in Threads : Send(t)

SpecLock == InitLock /\ [][NextLock]_vars

(***************************************************************************)
(* The account fields.  Two threads call SetAccountName for one client     *)
(* while a third reads Account or AccountName; every assignment of the     *)
(* function is a step of its own.                                          *)
(***************************************************************************)
\* the account names SetAccountName is called with
AccountNames == {<<>>, <<"A">>, <<"a">>, <<"b">>, <<"#">>}

\* SetAccountName as it would be without the lock
SetAccountNameStepsUnlocked(c, acct, cf) ==
    IF ~cf.ok THEN <<Op("return", [c |-> c, acct |-> acct, cf |-> <<>>])>>
    ELSE [i \in 1..3 |-> Op(<<"changed", "account", "accountName">>[i],
                            [c |-> c, acct |-> acct, cf |-> cf.val])]

\* SetAccountName as it would be if a rejected name were stored all the same
SetAccountNameStepsUnchecked(c, acct, cf) ==
    <<Op("Lock", ClientLock(c))>>
    \o [i \in 1..3 |-> Op(<<"changed", "account", "accountName">>[i],
                          [c |-> c, acct |-> acct, cf |-> cf.val])]
    \o <<Op("Unlock", ClientLock(c))>>

\* lines 389-400 for a name whose canonical form is cf: a rejected name returns
\* at once, any other is stored under the lock of the client
SetAccountNameSteps(c, acct, cf) ==
    IF ~cf.ok THEN <<Op("return", [c |-> c, acct |-> acct, cf |-> <<>>])>>
    ELSE <<Op("Lock", ClientLock(c))>>
         \o [i \in 1..3 |-> Op(<<"changed", "account", "accountName">>[i],
                               [c |-> c, acct |-> acct, cf |-> cf.val])]
         \o <<Op("Unlock", ClientLock(c))>>

\* lines 387-393: the empty name is not casefolded
SetAccountNameProg(c, acct) ==
    SetAccountNameSteps(c, acct,
        IF acct # <<>> THEN CasefoldName(acct) ELSE [ok |-> TRUE, val |-> <<>>, err |-> "nil"])

\* Client.Account and Client.AccountName: one field read under the read lock
LoadOps(c, field) ==
    <<Op("RLock", ClientLock(c)), Op("load", [c |-> c, field |-> field]),
      Op("RUnlock", ClientLock(c))>>

\* what a call of SetAccountName has done so far
AccountCall(a, changed, before, stores) ==
    Call("SetAccountName", a, [changed |-> changed, before |-> before, stores |-> stores])

InitAcct ==
    /\ mapping = "lower"
    /\ input = <<>> /\ prev = NoCall
    /\ call = [t \in Threads |-> NoCall]
    /\ flow = "multi" /\ forceNickEqualsAccount = FALSE
    /\ byNick = <<>>
    /\ nick = [c \in Clients |-> NoNick]
    /\ nickCasefolded = [c \in Clients |-> NoNick]
    /\ registered = [c \in Clients |-> FALSE]
    /\ channels = [c \in Clients |-> {}]
    /\ sessions = [c \in Clients |-> {<<c, 1>>}]
    /\ \E first \in {<<>>, <<"A">>} :
          /\ account = [c \in Clients |-> IF c = "c1" /\ first # <<>>
                                          THEN CasefoldName(first).val ELSE <<>>]
          /\ accountName = [c \in Clients |-> IF c = "c1" THEN first ELSE <<>>]
    /\ preregNick = [c \in Clients |-> <<>>]
    /\ tasks = {} /\ last = NoFrame /\ ops = 0
    /\ \E n1 \in AccountNames, n2 \in AccountNames, field \in {"account", "accountName"} :
          prog = [t \in Threads |-> IF t = "t1" THEN SetAccountNameProg("c1", n1)
                                    ELSE IF t = "t2" THEN SetAccountNameProg("c1", n2)
                                    ELSE LoadOps("c1", field)]
    /\ at = [t \in Threads |-> 1]
    /\ held = [t \in Threads |-> {}]
    /\ OperIdle

\* one assignment of SetAccountName (lines 398-400), or its early return (391)
Store(t) ==
    /\ ~Done(t)
    /\ Cur(t).op \in {"return", "changed", "account", "accountName"}
    /\ \E a \in {Cur(t).arg} :
          /\ call' = [call EXCEPT ![t] =
                IF Cur(t).op = "return" THEN AccountCall(a, FALSE, account[a.c], 0)
                ELSE IF Cur(t).op = "changed"
                     THEN AccountCall(a, account[a.c] # a.cf, account[a.c], 0)
                ELSE [@ EXCEPT !.res.stores = @ + 1]]
          /\ account' = IF Cur(t).op = "account"
                        THEN [account EXCEPT ![a.c] = a.cf] ELSE account
          /\ accountName' = IF Cur(t).op = "accountName"
                            THEN [accountName EXCEPT ![a.c] = a.acct] ELSE accountName
    /\ at' = [at EXCEPT ![t] = @ + 1]
    /\ UNCHANGED <<operVars, prog, held, input, prev, cfgVars, envVars, nickVars, tasks, last, ops>>

\* the reader copies the field
Load(t) ==
    /\ ~Done(t)
    /\ Cur(t).op = "load"
    /\ call' = [call EXCEPT ![t] =
                  Call(Cur(t).arg.field, Cur(t).arg.c,
                       IF Cur(t).arg.field = "account" THEN Account(Cur(t).arg.c)
                       ELSE AccountName(Cur(t).arg.c))]
    /\ at' = [at EXCEPT ![t] = @ + 1]
    /\ UNCHANGED <<operVars, prog, held, input, prev, serverVars>>

NextAcct ==
    \/ \E t \in Threads : Acquire(t)
    \/ \E t \in Threads : Release(t)
    \/ \E t \in Threads : Store(t)
    \/ \E t \in Threads : Load(t)

SpecAcct == InitAcct /\ [][NextAcct]_vars

(***************************************************************************)
(* Config.OperatorClasses.  The configuration is drawn at the start; every *)
(* pass of the outer loop ranges over conf.OperClasses in an order the     *)
(* runtime chooses.                                                        *)
(***************************************************************************)
ClassList == <<"k1", "k2", "k3">>
ClassNames == {ClassList[i] : i \in 1..MaxClasses}
\* the capabilities a class lists, when it is configured
OwnCapabilities == [k \in ClassNames |-> IF k = "k1" THEN {"p"} ELSE IF k = "k2" THEN {"q"} ELSE {}]
\* what the yaml of a class may say
OperClassConfigs ==
    [Title : {<<>>, <<"A", "d">>}, WhoisLine : {<<>>, <<"w">>},
     Extends : {""} \cup ClassNames \cup {"zz"}]

\* strings.ToLower on the letters of the titles
ToLower(str) == [i \in 1..Len(str) |-> IF str[i] = "A" THEN "a" ELSE str[i]]
\* strings.Contains
Contains(str, substr) ==
    \E i \in 0..Len(str) :
        i + Len(substr) <= Len(str) /\ SubSeq(str, i + 1, i + Len(substr)) = substr

\* lines 716-725, for a title that has a first character
WhoisLineOf(info) ==
    IF Len(info.WhoisLine) > 0 THEN info.WhoisLine
    ELSE <<"i", "s", " ", "a">>
         \o (IF Contains(ToLower(<<info.Title[1]>>), <<"a", "e", "i", "o", "u">>)
             THEN <<"n">> ELSE <<>>)
         \o <<" ">> \o info.Title

\* lines 699-715: the class with what it inherits and its own
Assemble(info, inherited) ==
    [Title |-> info.Title, WhoisLine |-> WhoisLineOf(info),
     Capabilities |-> inherited \cup info.Capabilities]

\* the call returns (nil, err) or (ocs, nil), or it panics
Returns(o, err) == [ocs |-> o, err |-> err]

InitOper ==
    /\ mapping = "lower"
    /\ input = <<>> /\ call = NoCall /\ prev = NoCall
    /\ flow = "multi" /\ forceNickEqualsAccount = FALSE
    /\ byNick = <<>>
    /\ nick = [c \in Clients |-> NoNick]
    /\ nickCasefolded = [c \in Clients |-> NoNick]
    /\ registered = [c \in Clients |-> FALSE]
    /\ channels = [c \in Clients |-> {}]
    /\ sessions = [c \in Clients |-> {<<c, 1>>}]
    /\ account = [c \in Clients |-> <<>>]
    /\ accountName = [c \in Clients |-> <<>>]
    /\ preregNick = [c \in Clients |-> <<>>]
    /\ tasks = {} /\ last = NoFrame /\ ops = 0
    /\ prog = [t \in Threads |-> <<>>]
    /\ at = [t \in Threads |-> 1]
    /\ held = [t \in Threads |-> {}]
    /\ \E present \in SUBSET ClassNames :
          \E yaml \in [present -> OperClassConfigs] :
             conf = [k \in present |->
                       [Title |-> yaml[k].Title, WhoisLine |-> yaml[k].WhoisLine,
                        Extends |-> yaml[k].Extends, Capabilities |-> OwnCapabilities[k]]]
    /\ ocs = <<>>
    /\ lenOfLastOcs = -1
    /\ anyMissing = FALSE
    /\ unvisited = {}
    /\ at_oc = "top"
    /\ result = NoResult

\* lines 675-682: the top of the outer loop
BeginPass ==
    /\ at_oc = "top"
    /\ IF lenOfLastOcs = Cardinality(DOMAIN ocs)
       THEN /\ result' = Returns(<<>>, "ErrOperClassDependencies")
            /\ at_oc' = "returned"
            /\ UNCHANGED <<lenOfLastOcs, anyMissing, unvisited>>
       ELSE /\ lenOfLastOcs' = Cardinality(DOMAIN ocs)
            /\ anyMissing' = FALSE
            /\ unvisited' = DOMAIN conf
            /\ at_oc' = "range"
            /\ UNCHANGED result
    /\ UNCHANGED <<conf, ocs, cfgVars, foldVars, lockVars, serverVars>>

\* lines 682-728: the body of the range for one class
Visit(name) ==
    /\ at_oc = "range"
    /\ name \in unvisited
    /\ \E info \in {conf[name]} :
          IF name \in DOMAIN ocs
          THEN /\ unvisited' = unvisited \ {name}
               /\ UNCHANGED <<ocs, anyMissing, at_oc, result>>
          ELSE IF Len(info.Extends) > 0 /\ info.Extends \notin DOMAIN ocs
          THEN IF info.Extends \notin DOMAIN conf
               THEN /\ result' = Returns(<<>>, "doesn't exist")
                    /\ at_oc' = "returned"
                    /\ UNCHANGED <<ocs, anyMissing, unvisited>>
               ELSE /\ anyMissing' = TRUE
                    /\ unvisited' = unvisited \ {name}
                    /\ UNCHANGED <<ocs, at_oc, result>>
          ELSE IF Len(info.WhoisLine) = 0 /\ Len(info.Title) = 0
          THEN \* line 720 indexes the empty title
               /\ result' = Returns(<<>>, "panic: index out of range")
               /\ at_oc' = "panicked"
               /\ UNCHANGED <<ocs, anyMissing, unvisited>>
          ELSE /\ ocs' = [k \in DOMAIN ocs \cup {name} |->
                            IF k = name
                            THEN Assemble(info, IF Len(info.Extends) > 0
                                                THEN ocs[info.Extends].Capabilities ELSE {})
                            ELSE ocs[k]]
               /\ unvisited' = unvisited \ {name}
               /\ UNCHANGED <<anyMissing, at_oc, result>>
    /\ UNCHANGED <<conf, lenOfLastOcs, cfgVars, foldVars, lockVars, serverVars>>

\* lines 730-736: the end of a pass
EndPass ==
    /\ at_oc = "range"
    /\ unvisited = {}
    /\ IF ~anyMissing
       THEN /\ result' = Returns(ocs, "nil")
            /\ at_oc' = "returned"
       ELSE /\ at_oc' = "top"
            /\ UNCHANGED result
    /\ UNCHANGED <<conf, ocs, lenOfLastOcs, anyMissing, unvisited,
                   cfgVars, foldVars, lockVars, serverVars>>

NextOper ==
    \/ BeginPass
    \/ \E name \in ClassNames : Visit(name)
    \/ EndPass

SpecOper == InitOper /\ [][NextOper]_vars

(***************************************************************************)
(* Properties.                                                             *)
(***************************************************************************)
\* every call of performNickChange in flight, and the one that just returned
Frames ==
    UNION {{st[i] : i \in 1..Len(st)} : st \in tasks}
        \cup (IF last.kind # "none" THEN {last} ELSE {})

\* the call asked the Registry and was refused
Refusal(f) == f.called /\ f.err \notin {"nil", "errNoop"}
\* the call asked the Registry and the rename was committed
Renamed(f) == f.called /\ f.err = "nil"
\* the call returned
Returned(f) == f.pc = "done"

\* the number of NICK lines the call delivered to session s
NickCount(f, s) ==
    (IF f.nickRb /\ f.session = s THEN 1 ELSE 0) + (IF s \in f.nickSent THEN 1 ELSE 0)

NoFanout(f) ==
    /\ f.nickSent = {} /\ ~f.nickRb
    /\ f.whoWasAdded = <<>>
    /\ f.histChannels = {}
    /\ f.alerts = 0

IsStrictPrefix(p, q) == Len(p) < Len(q) /\ SubSeq(q, 1, Len(p)) = p

\* C1: no two distinct clients that hold a nick have the same canonical nick
\* key, whatever renames (performNickChange, RandomlyRename, forceNick,
\* fixupNickEqualsAccount) ran and however they interleaved.
C1_UniqueKeys ==
    \A c, d \in Clients :
        (c # d /\ HasNick(c) /\ HasNick(d)) => nickCasefolded[c] # nickCasefolded[d]

\* a rename asked for a key another client held, was refused, and both hold nicks
C1_Witness ==
    \E f \in Frames :
        /\ f.err = "errNicknameInUse"
        /\ HasNick(f.target)
        /\ f.sawHolder # f.target /\ f.sawHolder \in Clients /\ HasNick(f.sawHolder)

\* C2: a call of SetNick for a key that a different client holds at that
\* moment fails with NicknameInUse, and only such a call does; so of two calls
\* for the same free key pending together the first is accepted and the second,
\* meeting the first one's target as holder, is refused, and the two targets
\* are never both registered under the key.
C2_OneWinner ==
    /\ \A f \in Frames :
          f.called => (f.err = "errNicknameInUse"
                          <=> (f.sawHolder \in Clients /\ f.sawHolder # f.target))
    /\ \A f, g \in Frames :
          (f.called /\ g.called /\ f.target # g.target /\ f.reqKey = g.reqKey)
             => ~(nickCasefolded[f.target] = f.reqKey /\ nickCasefolded[g.target] = f.reqKey)

\* two calls for the same key, free before, were pending together: the one
\* that asked first was accepted, the other was refused
C2_Witness ==
    \E f, g \in Frames :
        /\ f.target # g.target
        /\ f.reqKey = g.reqKey
        /\ Renamed(f) /\ f.sawHolder = "none" /\ g.target \in f.rivals
        /\ g.called /\ g.err = "errNicknameInUse" /\ g.sawHolder = f.target

C4_NoopQuiet ==
    [][\A f \in Frames' :
          f.sameName =>
             /\ Returned(f) /\ f.ret = "true"
             /\ flow = "multi" => f.err = "errNoop"
             /\ NoFanout(f) /\ f.replies = <<>> /\ f.snos = <<>>
             /\ f \notin Frames => UNCHANGED nickVars]_vars

\* a client was renamed to the name it holds
C4_Witness == last.kind # "none" /\ last.sameName /\ HasNick(last.target)

\* C5: every registry entry points to a client whose canonical nick is the
\* entry's key, every client that holds a nick is the registry's entry for its
\* canonical nick, and that canonical nick is the casefolded form of the nick;
\* so after a rename the old key is no longer the target's and the new one is.
C5_RegistryAgrees ==
    /\ \A k \in DOMAIN byNick : nickCasefolded[byNick[k]] = k
    /\ \A c \in Clients :
          HasNick(c) => /\ nickCasefolded[c] \in DOMAIN byNick
                        /\ byNick[nickCasefolded[c]] = c
                        /\ CasefoldName(nick[c]).ok
                        /\ CasefoldName(nick[c]).val = nickCasefolded[c]
    /\ \A c \in Clients : ~HasNick(c) => \A k \in DOMAIN byNick : byNick[k] # c

\* a client was renamed away from a key and another client has taken that key
C5_Witness ==
    \E f \in Frames :
        /\ Renamed(f) /\ f.hadNick /\ f.client = f.target
        /\ f.whowas.nicknameCasefolded \in DOMAIN byNick
        /\ byNick[f.whowas.nicknameCasefolded] # f.target
        /\ nickCasefolded[f.target] = f.reqKey

\* C6: a call of performNickChange whose SetNick failed returns false with
\* exactly one error reply in the buffer of the acting client's session.
C6_OneReplyAndFalse ==
    \A f \in Frames :
        (Refusal(f) /\ Returned(f))
           => /\ Len(f.replies) = 1
              /\ f.session \in sessions[f.client]
              /\ f.ret = "false"

\* C7: a call of performNickChange whose SetNick failed sends no NICK line,
\* appends no WhoWas entry and no history item and raises no monitor alert.
C7_NoFanoutOnFailure ==
    \A f \in Frames : Refusal(f) => NoFanout(f)

\* the sessions of the clients that share a channel with c
CoMemberSessions(c) ==
    UNION {sessions[m] : m \in {d \in Clients : channels[d] \cap channels[c] # {}}}

\* C8: after a successful rename of a target that had a nick, every session of
\* the target other than the originating one and every session of every friend
\* has been given exactly one NICK line, and no session more than one; in the
\* multi-session flow the originating session has its one line in the buffer.
C8_OneNickLineEach ==
    (last.kind # "none" /\ Renamed(last) /\ last.hadNick)
       => /\ \A s \in (sessions[last.target] \cup CoMemberSessions(last.target)) \ {last.session} :
                NickCount(last, s) = 1
          /\ \A s \in AllSessions : NickCount(last, s) <= 1
          /\ flow = "multi" => NickCount(last, last.session) = 1
          /\ last.nickLine = <<last.origNickMask, last.assignedNickname>>

\* a bouncer client with two sessions and a friend in its channel was renamed
C8_Witness ==
    /\ last.kind # "none" /\ Renamed(last) /\ last.hadNick
    /\ Cardinality(sessions[last.target]) > 1
    /\ last.session \in sessions[last.target]
    /\ CoMemberSessions(last.target) \ sessions[last.target] # {}

\* C9: in the multi-session flow a successful rename appends the Nick history
\* item to exactly the channels the target is in, with the target's old mask
\* as origin and the new nick as parameter.
C9_HistoryInTargetChannels ==
    (flow = "multi" /\ last.kind # "none" /\ Renamed(last))
       => /\ last.histChannels = channels[last.target]
          /\ last.histItem.type = "Nick"
          /\ last.histItem.nick = last.origNickMask
          /\ last.histItem.params = <<last.assignedNickname>>

\* the longest chain of calls forceNick can build: every derived name is two
\* characters longer and only the last one may exceed NickLen
MaxChain == ((NickLen - 1) \div 2) + 2

\* C10 as stated: when forceNick returns, the client is registered under a
\* derived name that differs from the name forceNick was given.
C10_AlwaysRenamed ==
    (last.kind = "force")
       => /\ IsStrictPrefix(last.orig, nick[last.client])
          /\ CasefoldName(nick[last.client]).val \in DOMAIN byNick
          /\ byNick[CasefoldName(nick[last.client]).val] = last.client

\* C10 amended: forceNick makes a bounded chain of attempts, each for a name
\* that extends the name before by a hyphen and a token; the attempt the
\* Registry accepts registers the client under that derived name, which differs
\* from the original; an attempt that is rejected changes nothing.
C10_BoundedDerived ==
    [][/\ \A st \in tasks' : Len(st) <= MaxChain
       /\ \A f \in Frames' :
             (f.kind = "force" /\ f \notin Frames)
                => /\ IsStrictPrefix(f.orig, f.nickname)
                   /\ (Renamed(f) /\ f.pc = "fanout")
                         => /\ nick'[f.client] = f.nickname
                            /\ byNick'[f.reqKey] = f.client
                            /\ f.nickname # f.orig
                   /\ (Returned(f) /\ f.ret = "false") => UNCHANGED nickVars]_vars

\* the name was taken, the first derived name was taken too, and the client
\* ended up under the second derived name
C10_Witness ==
    \E st \in tasks :
        /\ Len(st) >= 3
        /\ st[1].err = "errNicknameInUse"
        /\ st[2].kind = "force" /\ st[2].err = "errNicknameInUse"
        /\ st[3].kind = "force" /\ Renamed(st[3])
        /\ nick[st[3].client] = st[3].nickname
        /\ IsStrictPrefix(st[1].nickname, st[3].nickname)

\* C11: collision recovery does not retry: a call of performNickChange whose
\* derived name (made by forceNick for a taken name) was refused by SetNick
\* starts no further rename attempt, so it is the innermost call of its
\* operation.
C11_NoFurtherAttempt ==
    \A st \in tasks :
        \A i \in 1..Len(st) :
            (st[i].kind = "force" /\ Refusal(st[i])) => i = Len(st)

(***************************************************************************)
(* Properties of the normalizer, for SpecFold.                             *)
(***************************************************************************)
\* one pass of the mapping over a string the mapping accepts
Pass(str) == CompareKey(str).val
RECURSIVE PassN(_, _)
\* n passes of the mapping
PassN(str, n) == IF n = 0 THEN str ELSE PassN(Pass(str), n - 1)
\* the string is a fixed point of the mapping
FixedPoint(str) == CompareKey(str).ok /\ Pass(str) = str

\* C12: Casefold applied to a string that Casefold returned succeeds and
\* returns that string again, whatever the mapping underneath.
C12_Idempotent ==
    (call.fn = "Casefold" /\ prev.fn = "Casefold" /\ prev.res.ok)
       => (call.res.ok /\ call.res.val = prev.res.val)

\* C13: a string Casefold returns is a fixed point of the mapping, reached
\* within StabilizeLimit passes; when the passes are used up without the output
\* of a pass equalling the output of the pass before, Casefold fails with
\* errCouldNotStabilize.
C13_FixedPointOrError ==
    (call.fn = "Casefold" /\ CompareKey(call.arg).ok)
       => IF \E k \in 1..StabilizeLimit : PassN(call.arg, k) = PassN(call.arg, k - 1)
          THEN call.res.ok /\ FixedPoint(call.res.val)
          ELSE ~call.res.ok /\ call.res.err = "errCouldNotStabilize"

\* the call failed with error e
Failed(c, e) == ~c.res.ok /\ c.res.err = e /\ c.res.val = <<>>
\* the call returned the string v
Gave(c, v) == c.res.ok /\ c.res.val = v /\ c.res.err = "nil"

\* the length of the run of '#' at the start of the name
LeadingSigils(name) ==
    CHOOSE k \in 0..Len(name) :
        /\ \A i \in 1..k : name[i] = "#"
        /\ k < Len(name) => name[k + 1] # "#"

\* C14: CasefoldChannel fails with errStringIsEmpty on the empty name and with
\* errInvalidCharacter on a name that does not start with '#'; otherwise it
\* fails as Casefold fails on the rest after the run of '#', fails with
\* errInvalidCharacter when the casefolded rest contains space, comma, '*' or
\* '?', and else returns the run of '#' unchanged followed by the casefolded
\* rest.
C14_ChannelCases ==
    (call.fn = "CasefoldChannel")
       => LET name == call.arg
              n == LeadingSigils(name)
              rest == Casefold(SubSeq(name, n + 1, Len(name)))
          IN  IF name = <<>> THEN Failed(call, "errStringIsEmpty")
              ELSE IF n = 0 THEN Failed(call, "errInvalidCharacter")
              ELSE IF ~rest.ok THEN Failed(call, rest.err)
              ELSE IF \E i \in 1..Len(rest.val) : rest.val[i] \in {" ", ",", "*", "?"}
                   THEN Failed(call, "errInvalidCharacter")
              ELSE Gave(call, SubSeq(name, 1, n) \o rest.val)

\* a channel name with an upper-case letter after its '#' was casefolded
C14_Witness ==
    /\ call.fn = "CasefoldChannel"
    /\ call.arg = <<"#", "A">>
    /\ call.res.ok /\ call.res.val = <<"#", "a">>

\* C15: CasefoldName fails as Casefold fails, fails with errStringIsEmpty
\* when the casefolded name is empty, fails with errInvalidCharacter when it
\* contains one of space , * ? . ! @ : or starts with one of # ~ & @ % + -,
\* and else returns the casefolded name.
C15_NameCases ==
    (call.fn = "CasefoldName")
       => LET l == Casefold(call.arg)
          IN  IF ~l.ok THEN Failed(call, l.err)
              ELSE IF l.val = <<>> THEN Failed(call, "errStringIsEmpty")
              ELSE IF \/ \E i \in 1..Len(l.val) :
                            l.val[i] \in {" ", ",", "*", "?", ".", "!", "@", ":"}
                      \/ l.val[1] \in {"#", "~", "&", "@", "%", "+", "-"}
                   THEN Failed(call, "errInvalidCharacter")
              ELSE Gave(call, l.val)

\* a name with an upper-case letter was casefolded, and a name with a '.' in
\* second place was refused
C15_Witness ==
    /\ call.fn = "CasefoldName"
    /\ call.arg = <<"A", "a">>
    /\ call.res.ok /\ call.res.val = <<"a", "a">>
    /\ ~CasefoldName(<<"a", ".">>).ok

\* C16: a string CasefoldName returns is not empty and does not start with
\* '#', a string CasefoldChannel returns starts with '#': no string is
\* returned by both, whatever their inputs.
C16_KeysDisjoint ==
    /\ (call.fn = "CasefoldName" /\ call.res.ok)
          => (call.res.val # <<>> /\ call.res.val[1] # "#")
    /\ (call.fn = "CasefoldChannel" /\ call.res.ok)
          => (call.res.val # <<>> /\ call.res.val[1] = "#")

\* CasefoldChannel returned a name that CasefoldName refuses only for its
\* first character
C16_Witness ==
    /\ call.fn = "CasefoldChannel" /\ call.res.ok
    /\ call.res.val = <<"#", "a">>
    /\ ~CasefoldName(call.res.val).ok
    /\ CasefoldName(Tail(call.res.val)).ok

EmptyRequest(f) ==
    IF flow = "multi"
    THEN f.called /\ f.raw = <<>> /\ f.reqName = <<>>
    ELSE f.kind # "none" /\ TrimSpace(f.raw) = <<>>

\* C18: a rename request with no name fails with NickMissing: the call
\* returns false with the one reply ERR_NONICKNAMEGIVEN, and the step changes
\* neither the Registry nor any nick; in the single-session flow a name of
\* spaces only counts as empty.
C18_EmptyNameMissing ==
    [][\A f \in Frames' :
          (f \notin Frames /\ EmptyRequest(f))
             => /\ Returned(f) /\ f.ret = "false"
                /\ flow = "multi" => f.err = "errNickMissing"
                /\ f.replies = <<Reply("ERR_NONICKNAMEGIVEN", f.currentNick, <<>>)>>
                /\ NoFanout(f)
                /\ UNCHANGED nickVars]_vars

\* a name of one space was refused in the single-session flow
C18_Witness ==
    /\ flow = "single"
    /\ last.kind = "nick" /\ last.raw = <<" ">> /\ last.nickname = <<>>
    /\ last.ret = "false"
    /\ Len(last.replies) = 1 /\ last.replies[1].code = "ERR_NONICKNAMEGIVEN"

\* the call asks for a name whose canonical form is on the restricted list
AsksRestricted(f) ==
    /\ f.kind # "none" /\ f.pc # "begin"
    /\ CasefoldName(f.nickname).ok
    /\ CasefoldName(f.nickname).val \in Restricted

\* C19: no registry entry and no client's canonical nick is on the restricted
\* list, and a call of performNickChange for a name whose canonical form is on
\* the list, whoever made it, renames nobody and returns false with the one
\* reply ERR_ERRONEUSNICKNAME.
C19_NoRestrictedKey ==
    /\ \A k \in DOMAIN byNick : k \notin Restricted
    /\ \A c \in Clients : HasNick(c) => nickCasefolded[c] \notin Restricted
    /\ \A f \in Frames :
          AsksRestricted(f)
             => /\ ~Renamed(f)
                /\ f.called => f.err = "errNicknameInvalid"
                /\ Returned(f)
                      => /\ f.ret = "false"
                         /\ f.replies = <<Reply("ERR_ERRONEUSNICKNAME", f.currentNick,
                                                 f.nickname)>>

\* a client that holds a nick asked for a restricted name and was refused
C19_Witness ==
    /\ AsksRestricted(last)
    /\ last.hadNick \/ HasNick(last.target)
    /\ last.ret = "false"
    /\ nickCasefolded[last.target] \notin Restricted

\* C20: a call of performNickChange that renamed a target whose nick was "*"
\* when the call looked at it has sent no operator notice, appended no WhoWas
\* entry, put no NICK line in its buffer, sent none to any session and appended
\* no history item to any channel.
C20_QuietFirstNick ==
    \A f \in Frames :
        (Renamed(f) /\ Returned(f) /\ ~f.hadNick)
           => /\ f.dNick = NoNick
              /\ f.snos = <<>>
              /\ f.whoWasAdded = <<>>
              /\ ~f.nickRb /\ f.nickSent = {} /\ f.nickLine = NoLine
              /\ f.histChannels = {}

\* a client that had just connected was given its first nick
C20_Witness ==
    /\ Renamed(last) /\ Returned(last) /\ last.ret = "true"
    /\ ~last.hadNick /\ last.dNick = NoNick
    /\ HasNick(last.target) /\ nick[last.target] = last.reqName

\* C21: a call of performNickChange that renamed a client whose registered
\* flag is false has put no NICK line in its buffer and sent none to any
\* session, also when the client had already picked a first nick.
C21_UnregisteredQuiet ==
    (Renamed(last) /\ Returned(last) /\ ~Registered(last.target))
        => ~last.nickRb /\ last.nickSent = {}

\* C22: a call of performNickChange that has returned raised exactly one
\* monitor alert if it renamed a registered target, and none if the Registry
\* refused the name, the rename was a no-op or the target was not registered.
C22_OneAlertPerRename ==
    (last.kind # "none" /\ Returned(last))
        => last.alerts = (IF Renamed(last) /\ Registered(last.target) THEN 1 ELSE 0)

\* C23: a call of performNickChange that renamed its target raised a monitor
\* alert only if the target was registered and logged in to an account.
C23_AlertNeedsLogin ==
    (Renamed(last) /\ Returned(last) /\ last.alerts > 0)
        => Registered(last.target) /\ Account(last.target) # <<>>

\* C24: a call of performNickChange that renamed a target that had a nick
\* appended exactly one WhoWas entry, and that entry names the target and the
\* nick the target gave up in the rename, also when an operator acted.
C24_WhoWasIsVacated ==
    (Renamed(last) /\ Returned(last) /\ last.hadNick)
        => /\ Len(last.whoWasAdded) = 1
           /\ last.whoWasAdded[1].user = last.target
           /\ last.whoWasAdded[1].nickname = last.vacated

\* C25: a call of performNickChange that has returned called logger.Debug
\* for "nick" exactly once if the Registry committed its rename, and not at
\* all if the Registry refused the name or the rename was a no-op.
C25_OneLogPerRename ==
    (last.kind # "none" /\ Returned(last))
        => last.logs = (IF Renamed(last) THEN 1 ELSE 0)

\* C26: under the nick-equals-account policy every step in which a client
\* logs in to an account starts a call of performNickChange for that client
\* with an empty requested name, whether the client is registered or not.
C26_LoginReinvokes ==
    [][\A c \in Clients :
          (forceNickEqualsAccount /\ account[c] = <<>> /\ account'[c] # <<>>)
             => \E f \in Frames' :
                   /\ f \notin Frames
                   /\ f.kind = "fixup" /\ f.client = c /\ f.target = c
                   /\ f.raw = <<>>]_vars

\* the locks of the three guarded classes a thread holds
Guarding(t) == {h \in held[t] : Rank(h[1]) <= 3}

\* C27: a thread that is about to send, or is held up in a send, holds neither
\* the lock of the Registry nor the lock of any client or channel.
C27_SendsLockFree ==
    \A t \in Threads : (~Done(t) /\ Cur(t).op = "send") => Guarding(t) = {}

\* a NICK line is on its way to a session, its sender holding no lock, while
\* another rename is inside its Registry transaction
C27_Witness ==
    \E t \in Threads, u \in Threads :
        /\ ~Done(t) /\ Cur(t).op = "send" /\ Cur(t).arg \in AllSessions
        /\ at[t] < Len(prog[t]) /\ held[t] = {}
        /\ <<RegistryLock, "W">> \in held[u]

\* C28: a thread asks for the lock of the Registry only while it holds no lock
\* of a client or a channel, and for the lock of a client only while it holds
\* no lock of a channel; and whenever a call is unfinished some unfinished call
\* can take its next step.
C28_LockOrder ==
    /\ \A t \in Threads :
          (~Done(t) /\ Cur(t).op \in {"Lock", "RLock"} /\ Rank(Cur(t).arg) <= 3)
             => \A h \in Guarding(t) : Rank(h[1]) <= Rank(Cur(t).arg)
    /\ (\E t \in Threads : ~Done(t)) => (\E t \in Threads : CanStep(t))

\* a rename inside its Registry transaction waits for the lock of a client
\* that another thread holds, and a third thread waits for the Registry
C28_Witness ==
    \E t \in Threads, u \in Threads :
        /\ <<RegistryLock, "W">> \in held[t]
        /\ ~Done(t) /\ Cur(t).op = "Lock" /\ Rank(Cur(t).arg) = 2 /\ ~CanStep(t)
        /\ u # t /\ \E m \in {"R", "W"} : <<Cur(t).arg, m>> \in held[u]
        /\ \E v \in Threads : v # t /\ ~Done(v) /\ Cur(v) = Op("Lock", RegistryLock) /\ ~CanStep(v)

\* the call on top of the stack is at a step it can take
Runnable(st) ==
    Top(st).pc \in (IF flow = "single" THEN {"begin", "setnick", "fanout"}
                    ELSE {"setnick", "fanout"})

\* C29: under fair scheduling every rename operation that was invoked
\* (a NICK or SANICK, RandomlyRename, fixupNickEqualsAccount, and the calls
\* of forceNick inside them) returns, whatever runs beside it: an operation
\* in flight can always take its next step, it is infinitely often not in
\* flight, and the call that returns does so with true or false.
C29_EveryRenameReturns ==
    /\ [](\A st \in tasks : Runnable(st))
    /\ \A c \in Clients, k \in Kinds : []<>(InFlight(c, k) = {})
    /\ [](Returned(last) => last.ret \in {"true", "false"})

\* the steps of Run are the steps that change the stacks and invoke nothing
RunIsProgress == [][Run <=> Progress]_vars

\* every operation in flight can take its next step
RunEnabled == (tasks # {}) <=> ENABLED Run

\* the operations invoked have all returned, the last of them a NICK that went
\* through forceNick after its name was refused
C29_Witness ==
    /\ tasks = {} /\ ops = MaxOps
    /\ Returned(last) /\ last.kind = "nick" /\ last.err = "errNicknameInUse"
    /\ last.ret \in {"true", "false"}

\* C30: a rename changes the Registry and the client whatever sessions the
\* target has left: every RandomlyRename that has ended, also one of a client
\* whose sessions have all detached, asked the Registry for its name.
C30_RenameIgnoresSessions ==
    (last.kind = "random" /\ last.pc \in {"done", "skipped"}) => last.called

\* the error replies the call f delivered to session s: those of its buffer,
\* which belongs to one session
Delivered(f, s) == IF s = f.session THEN f.replies ELSE <<>>

\* C31: when the rename of RandomlyRename was refused and the client has a
\* session, exactly one session of the client was given the error reply, and
\* it was given it once.
C31_OneSessionTold ==
    (last.kind = "random" /\ Returned(last) /\ Refusal(last) /\ Sessions(last.client) # {})
        => /\ Cardinality({s \in Sessions(last.client) : Delivered(last, s) # <<>>}) = 1
           /\ \A s \in Sessions(last.client) : Len(Delivered(last, s)) <= 1
           /\ \A s \in AllSessions \ Sessions(last.client) : Delivered(last, s) = <<>>

\* the guest name of a client with two sessions was taken by another client
C31_Witness ==
    /\ last.kind = "random" /\ Returned(last) /\ last.err = "errNicknameInUse"
    /\ flow = "multi" /\ Cardinality(Sessions(last.client)) = 2
    /\ Len(last.replies) = 1 /\ last.session \in Sessions(last.client)

\* C32: the old name in the NICK line and in the history item of a rename is
\* the name the target held when the Registry committed that rename, however
\* the renames of one target interleave.
C32_OldNameIsVacated ==
    (Renamed(last) /\ Returned(last) /\ last.hadNick)
        => /\ last.nickLine # NoLine => last.nickLine[1] = <<last.vacated, last.target>>
           /\ last.histItem # <<>> => last.histItem.nick = <<last.vacated, last.target>>

\* C33: in the single-session flow no client holds a nick longer than NickLen,
\* whether the name was asked for, derived by forceNick or made by
\* RandomlyRename; and a call given a name longer than NickLen has returned
\* false with ERR_ERRONEUSNICKNAME and has not asked the Registry.
C33_NickLenKept ==
    flow = "single"
        => /\ \A c \in Clients : HasNick(c) => Len(Nick(c)) <= NickLen
           /\ \A f \in Frames :
                 (f.pc # "begin" /\ Len(f.nickname) > NickLen)
                    => /\ Returned(f) /\ f.ret = "false" /\ ~f.called
                       /\ Len(f.replies) = 1
                       /\ f.replies[1].code = "ERR_ERRONEUSNICKNAME"

\* the name forceNick derived from a taken name was too long and was refused
C33_Witness ==
    /\ flow = "single"
    /\ last.kind = "force" /\ Returned(last) /\ Len(last.nickname) > NickLen
    /\ last.ret = "false" /\ ~last.called
    /\ \E c \in Clients : HasNick(c) /\ Len(Nick(c)) = NickLen

\* the two account fields of the client agree
InStep(c) ==
    \/ account[c] = <<>> /\ accountName[c] = <<>>
    \/ /\ accountName[c] # <<>>
       /\ CasefoldName(accountName[c]).ok
       /\ CasefoldName(accountName[c]).val = account[c]

\* C34: whenever no call of SetAccountName holds the lock of the client, and
\* so whenever a reader is about to copy a field in Account or AccountName,
\* the canonical account of the client is CasefoldName of its account name, or
\* both are empty.
C34_AccountInStep ==
    \A c \in Clients :
        /\ Holders(ClientLock(c), {"W"}) = {} => InStep(c)
        /\ \A t \in Threads : (~Done(t) /\ Cur(t).op = "load" /\ Cur(t).arg.c = c) => InStep(c)

\* two calls with different names have both stored theirs, the reader
\* is inside its accessor, and the fields agree
C34_Witness ==
    /\ Done("t1") /\ Done("t2")
    /\ call["t1"].fn = "SetAccountName" /\ call["t1"].res.stores = 2
    /\ call["t2"].fn = "SetAccountName" /\ call["t2"].res.stores = 2
    /\ call["t1"].arg.cf # call["t2"].arg.cf
    /\ ~Done("t3") /\ Cur("t3").op = "load"
    /\ account["c1"] # <<>> /\ InStep("c1")

\* CasefoldName refuses the account name
RejectedAccount(acct) == acct # <<>> /\ ~CasefoldName(acct).ok

\* C35: a call of SetAccountName with a name CasefoldName refuses returns
\* changed = false and assigns neither field; a call with any other name
\* stores the canonical form of the name and returns changed = true exactly
\* when that assignment alters the canonical account of the client.
C35_ChangedIsTold ==
    [][\A t \in Threads :
          (at'[t] # at[t] /\ Cur(t).op \in {"return", "account"})
              => IF Cur(t).op = "return"
                 THEN /\ RejectedAccount(Cur(t).arg.acct)
                      /\ Len(prog[t]) = 1
                      /\ account' = account /\ accountName' = accountName
                      /\ call'[t].res.changed = FALSE
                 ELSE /\ ~RejectedAccount(Cur(t).arg.acct)
                      /\ account'[Cur(t).arg.c] =
                            (IF Cur(t).arg.acct = <<>> THEN <<>>
                             ELSE CasefoldName(Cur(t).arg.acct).val)
                      /\ call[t].res.changed
                            = (account'[Cur(t).arg.c] # account[Cur(t).arg.c])]_vars

\* one call was refused and stored nothing; another stored a new spelling of
\* the same account and returned changed = false
C35_Witness ==
    /\ Done("t1") /\ Done("t2")
    /\ call["t1"].fn = "SetAccountName" /\ call["t1"].arg.acct = <<"#">>
    /\ ~call["t1"].res.changed /\ call["t1"].res.stores = 0
    /\ call["t2"].fn = "SetAccountName" /\ call["t2"].arg.acct = <<"a">>
    /\ ~call["t2"].res.changed /\ call["t2"].res.stores = 2
    /\ call["t2"].res.before = <<"a">>
    /\ account["c1"] = <<"a">> /\ accountName["c1"] = <<"a">>

\* the class reached from k by following extends n times
RECURSIVE Follow(_, _)
Follow(k, n) ==
    IF n = 0 \/ k \notin DOMAIN conf THEN k ELSE Follow(conf[k].Extends, n - 1)
\* the extends relation of the configuration has a cycle
Cyclic == \E k \in DOMAIN conf : \E n \in 1..MaxClasses : Follow(k, n) = k
\* some class extends a class the configuration does not have
Dangling == \E k \in DOMAIN conf : conf[k].Extends # "" /\ conf[k].Extends \notin DOMAIN conf

\* C36: every call of OperatorClasses comes to an end by returning:
\* ErrOperClassDependencies when the extends relation has a cycle, an error
\* when a class extends a class that does not exist (either of the two when
\* both are the case), and otherwise every class of the configuration, each
\* with all the capabilities of the class it extends.
C36_OperatorClassesReturns ==
    at_oc \notin {"idle", "top", "range"}
        => /\ at_oc = "returned"
           /\ IF Cyclic /\ Dangling
              THEN result.err \in {"ErrOperClassDependencies", "doesn't exist"}
              ELSE IF Cyclic THEN result.err = "ErrOperClassDependencies"
              ELSE IF Dangling THEN result.err = "doesn't exist"
              ELSE /\ result.err = "nil"
                   /\ DOMAIN result.ocs = DOMAIN conf
                   /\ \A k \in DOMAIN conf :
                         /\ OwnCapabilities[k] \subseteq result.ocs[k].Capabilities
                         /\ conf[k].Extends # ""
                               => result.ocs[conf[k].Extends].Capabilities
                                     \subseteq result.ocs[k].Capabilities

====
